---- MODULE Spec2Model ----
(***************************************************************************)
(* A model of the virtual_ta API clients: the Blackboard gradebook client  *)
(* (token cache, overwrite guard, batch grade writes, body-cursor paging), *)
(* the GitHub organisation client (Link-header paging) and the Slack       *)
(* workspace client (cursor paging, direct messages, channel set-up).      *)
(*                                                                         *)
(* Each subsystem has its own variables and its own specification; a       *)
(* subsystem that a specification does not exercise is parked ("off").     *)
(***************************************************************************)
EXTENDS Integers, Sequences, FiniteSets, TLC

VARIABLES
    \* ---- Blackboard gradebook server (one column) and set_grade frames
    gradebook,        \* user name -> grade record held by the server
    sg_pc,            \* caller -> position inside set_grade
    sg_args,          \* caller -> arguments of the running set_grade call
    current_grade,    \* caller -> local current_grade of set_grade
    sg_return,        \* caller -> value returned by the last set_grade call
    sg_requests,      \* caller -> HTTP requests issued since the call began
    cell_at_call,     \* caller -> the server's record when the call began
    \* ---- set_grades_in_column (runs on the main caller)
    batch_pc,         \* position inside set_grades_in_column
    batch_args,       \* its arguments
    batch_index,      \* 1-based position in grades_as_scores.items()
    batch_return,     \* its local return_value list
    batch_calls,      \* the set_grade invocations it made, in order
    batch_start,      \* the gradebook when the batch began
    \* ---- Blackboard token cache (api_token property)
    now,              \* the clock, in seconds
    api_token,        \* BlackboardCourse.__api_token
    api_token_expiration_datetime,
    tokens_issued,    \* responses the token endpoint has given so far
    tk_pc,            \* caller -> line of api_token it stands at
    tk_depth,         \* caller -> frames of api_token suspended at line 111
    tk_response,      \* caller -> api_token_response of the innermost frame
    tk_ret,           \* caller -> value of the last return statement
    tk_obs,           \* caller -> what the running access has done so far
    \* ---- a paginated listing (one generator, any of the three styles)
    pg_pc,            \* "off", "idle", "run" (inside the loop), "done"
    pg_fn,            \* the listing function that runs
    pg_site,          \* the server: its pages, in chain order
    pg_next,          \* the loop variable: api_request_url / cursor_position
    pg_requests,      \* the page requests issued, in order
    pg_yielded,       \* the items yielded, in order
    \* ---- Slack workspace (server) and one SlackAccount method call
    workspace,        \* the server: members, ims, channels, delivered
    slack_pc,         \* "off", "idle", "run", "done", "raised"
    slack_fn,         \* the method that runs
    slack_args,       \* its arguments
    slack_step,       \* 1-based position in its loop or in its steps
    slack_locals,     \* its local names that are bound so far
    slack_return,     \* its return_value
    slack_log,        \* its HTTP requests and sleeps, in order
    slack_start,      \* the workspace when the call began
    \* ---- one call of a GitHub PR clean-up or of a data-merge function
    call_pc,          \* "off", "idle", a position inside the function,
                      \* "done", "raised"
    call_fn,          \* the function that runs
    call_args,        \* its arguments
    call_locals,      \* its local names that are bound so far
    call_log,         \* the HTTP requests and file reads it made, in order
    call_return       \* its return value

gradeVars == <<gradebook, sg_pc, sg_args, current_grade, sg_return,
               sg_requests, cell_at_call>>
batchVars == <<batch_pc, batch_args, batch_index, batch_return, batch_calls,
               batch_start>>

tokenVars == <<now, api_token, api_token_expiration_datetime, tokens_issued,
               tk_pc, tk_depth, tk_response, tk_ret, tk_obs>>

pagingVars == <<pg_pc, pg_fn, pg_site, pg_next, pg_requests, pg_yielded>>

slackVars == <<workspace, slack_pc, slack_fn, slack_args, slack_step,
               slack_locals, slack_return, slack_log, slack_start>>

callVars == <<call_pc, call_fn, call_args, call_locals, call_log, call_return>>

vars == <<gradeVars, batchVars, tokenVars, pagingVars, slackVars, callVars>>

\* What the actions of one subsystem leave alone
OnlyGradebook == UNCHANGED <<tokenVars, pagingVars, slackVars, callVars>>
OnlyToken ==
    UNCHANGED <<gradeVars, batchVars, pagingVars, slackVars, callVars>>
OnlyPaging ==
    UNCHANGED <<gradeVars, batchVars, tokenVars, slackVars, callVars>>
OnlySlack ==
    UNCHANGED <<gradeVars, batchVars, tokenVars, pagingVars, callVars>>
OnlyCall ==
    UNCHANGED <<gradeVars, batchVars, tokenVars, pagingVars, slackVars>>

----------------------------------------------------------------------------
(* Python values: None, str and int are kept apart so that str() and       *)
(* "is None" are real operations.                                          *)

None == [none |-> TRUE]
PyStr(s) == [s |-> s]
PyInt(n) == [i |-> n]

IsStr(v) == DOMAIN v = {"s"}
IsInt(v) == DOMAIN v = {"i"}

DigitChars == <<"0", "1", "2", "3", "4", "5", "6", "7", "8", "9">>

RECURSIVE DecimalString(_)
DecimalString(n) ==
    IF n < 10 THEN DigitChars[n + 1]
    ELSE DecimalString(n \div 10) \o DigitChars[(n % 10) + 1]

\* Python's str(): the identity on str, decimal digits for a non-negative int
str(v) ==
    IF IsStr(v) THEN v
    ELSE IF IsInt(v) THEN PyStr(DecimalString(v.i))
    ELSE PyStr("None")

\* dict.get(key, default)
DictGet(d, key, default) == IF key \in DOMAIN d THEN d[key] ELSE default

\* A dict given by its items
EmptyDict == [k \in {} |-> None]

Last(s) == s[Len(s)]

\* No function call in progress
CallOff ==
    /\ call_pc = "off"
    /\ call_fn = "none"
    /\ call_args = EmptyDict
    /\ call_locals = EmptyDict
    /\ call_log = <<>>
    /\ call_return = None

CallIdle ==
    /\ call_pc = "idle"
    /\ call_fn = "none"
    /\ call_args = EmptyDict
    /\ call_locals = EmptyDict
    /\ call_log = <<>>
    /\ call_return = None

----------------------------------------------------------------------------
(* Blackboard gradebook: set_grade and its overwrite guard                 *)

Callers == {"c1", "c2"}
MainCaller == "c1"

UserNames == {"u1", "u2"}
ScoreInputs == {PyInt(7), PyStr("")}
TextInputs == {PyStr(""), PyStr("T")}
FeedbackInputs == {PyStr(""), PyStr("F")}

\* The server's record of a cell nobody graded: no score key, or a null score
UngradedRecords(u) ==
    { [k \in {"userId"} |-> PyStr(u)],
      [k \in {"userId", "score"} |-> IF k = "score" THEN None ELSE PyStr(u)] }

SetGradeArgs ==
    [user_name : UserNames, grade_as_score : ScoreInputs,
     grade_as_text : TextInputs, grade_feedback : FeedbackInputs,
     overwrite : BOOLEAN]

\* Two callers that grade the same cell, neither asking to overwrite or both
RaceArgs ==
    [user_name : {"u1"}, grade_as_score : {PyInt(7), PyInt(8)},
     grade_as_text : {PyStr("")}, grade_feedback : {PyStr("")},
     overwrite : BOOLEAN]

NoArgs == [user_name |-> "u1", grade_as_score |-> PyStr(""),
           grade_as_text |-> PyStr(""), grade_feedback |-> PyStr(""),
           overwrite |-> TRUE]

GradeRequest(method, user_name, data) ==
    [method |-> method, user_name |-> user_name, data |-> data]

\* The server answers a GET with the record it holds
ServerGetGrade(book, user_name) == book[user_name]

\* The server applies a PATCH: the body's fields replace the record's,
\* whatever the record holds
ServerPatchGrade_unless_graded(book, user_name, data) ==
    IF DictGet(book[user_name], "score", None) # None THEN book
    ELSE [book EXCEPT ![user_name] =
            [k \in (DOMAIN @) \cup (DOMAIN data) |->
                IF k \in DOMAIN data THEN data[k] ELSE @[k]]]
ServerPatchGrade(book, user_name, data) ==
    [book EXCEPT ![user_name] =
        [k \in (DOMAIN @) \cup (DOMAIN data) |->
            IF k \in DOMAIN data THEN data[k] ELSE @[k]]]

\* set_grade, the condition that decides on the write
write_needed_always(overwrite, grade) == TRUE
write_needed_unless_empty(overwrite, grade) ==
    \/ overwrite
    \/ DictGet(grade, "score", None) \in {None, PyStr("")}
write_needed(overwrite, grade) ==
    overwrite \/ DictGet(grade, "score", None) = None

\* set_grade, the JSON body of the PATCH
patch_data(args) ==
    [score |-> str(args.grade_as_score),
     text |-> args.grade_as_text,
     feedback |-> args.grade_feedback]

BatchRunning == batch_pc = "loop"

\* An exception leaving set_grade on the main caller ends a running batch
PropagateToBatch(c, raised) ==
    batch_pc' = IF raised /\ c = MainCaller /\ BatchRunning
                THEN "raised" ELSE batch_pc

\* Entry into set_grade: the locals before the first request
EnterSetGrade(c, args, log) ==
    /\ sg_args' = [sg_args EXCEPT ![c] = args]
    /\ current_grade' = [current_grade EXCEPT ![c] = EmptyDict]
    /\ sg_return' = [sg_return EXCEPT ![c] = None]
    /\ sg_requests' = [sg_requests EXCEPT ![c] = log]
    /\ cell_at_call' = [cell_at_call EXCEPT ![c] = gradebook[args.user_name]]
    /\ sg_pc' = [sg_pc EXCEPT ![c] = IF args.overwrite THEN "patch" ELSE "get"]

\* A direct call of set_grade
set_grade_call(c, args) ==
    /\ sg_pc[c] \in {"idle", "done", "raised"}
    /\ batch_pc = "off"
    /\ EnterSetGrade(c, args, <<>>)
    /\ UNCHANGED <<gradebook, batchVars>>
    /\ OnlyGradebook

\* set_grade with overwrite=False: get_grade, then the decision
set_grade_get(c) ==
    /\ sg_pc[c] = "get"
    /\ sg_requests' = [sg_requests EXCEPT ![c] =
            Append(@, GradeRequest("GET", sg_args[c].user_name, None))]
    /\ \E ok \in BOOLEAN :
        IF ok
        THEN LET grade == ServerGetGrade(gradebook, sg_args[c].user_name) IN
             /\ current_grade' = [current_grade EXCEPT ![c] = grade]
             /\ IF write_needed(sg_args[c].overwrite, grade)
                THEN /\ sg_pc' = [sg_pc EXCEPT ![c] = "patch"]
                     /\ UNCHANGED sg_return
                ELSE /\ sg_pc' = [sg_pc EXCEPT ![c] = "done"]
                     /\ sg_return' = [sg_return EXCEPT ![c] = grade]
             /\ PropagateToBatch(c, FALSE)
        ELSE /\ sg_pc' = [sg_pc EXCEPT ![c] = "raised"]
             /\ PropagateToBatch(c, TRUE)
             /\ UNCHANGED <<current_grade, sg_return>>
    /\ UNCHANGED <<gradebook, sg_args, cell_at_call>>
    /\ UNCHANGED <<batch_args, batch_index, batch_return, batch_calls,
                   batch_start>>
    /\ OnlyGradebook

\* set_grade: the PATCH; a request that raises may or may not have reached
\* the server
set_grade_patch(c) ==
    /\ sg_pc[c] = "patch"
    /\ LET user_name == sg_args[c].user_name
           data == patch_data(sg_args[c])
           written == ServerPatchGrade(gradebook, user_name, data)
       IN
        /\ sg_requests' = [sg_requests EXCEPT ![c] =
                Append(@, GradeRequest("PATCH", user_name, data))]
        /\ \E ok \in BOOLEAN, applied \in BOOLEAN :
            IF ok
            THEN /\ applied
                 /\ gradebook' = written
                 /\ sg_return' = [sg_return EXCEPT ![c] = written[user_name]]
                 /\ sg_pc' = [sg_pc EXCEPT ![c] = "done"]
                 /\ PropagateToBatch(c, FALSE)
            ELSE /\ gradebook' = IF applied THEN written ELSE gradebook
                 /\ sg_pc' = [sg_pc EXCEPT ![c] = "raised"]
                 /\ PropagateToBatch(c, TRUE)
                 /\ UNCHANGED sg_return
    /\ UNCHANGED <<sg_args, current_grade, cell_at_call>>
    /\ UNCHANGED <<batch_args, batch_index, batch_return, batch_calls,
                   batch_start>>
    /\ OnlyGradebook

----------------------------------------------------------------------------
(* Blackboard gradebook: set_grades_in_column                              *)

\* A Python dict in iteration order: a sequence of <<key, value>> items with
\* distinct keys
IsItems(items) ==
    \A i, j \in 1..Len(items) : items[i][1] = items[j][1] => i = j

ItemsOver(keys, values) ==
    { items \in UNION { [1..n -> keys \X values] : n \in 0..Cardinality(keys) } :
        IsItems(items) }

\* A dict whose order does not matter: a function on a set of keys
DictsOver(keys, values) == UNION { [S -> values] : S \in SUBSET keys }

BatchArgs ==
    [grades_as_scores : ItemsOver(UserNames, ScoreInputs),
     grades_as_text : {None} \cup DictsOver(UserNames, {PyStr("T")}),
     grades_feedback : {None} \cup DictsOver(UserNames, {PyStr("F")}),
     overwrite : BOOLEAN]

NoBatchArgs == [grades_as_scores |-> <<>>, grades_as_text |-> None,
                grades_feedback |-> None, overwrite |-> TRUE]

\* A cell somebody graded before the batch
GradedRecord(u) ==
    [k \in {"userId", "score", "text", "feedback"} |->
        CASE k = "userId" -> PyStr(u)
          [] k = "score" -> PyStr("5")
          [] OTHER -> PyStr("")]

\* set_grades_in_column: "if grades_as_text is None: grades_as_text = {}"
dict_or_empty(d) == IF d = None THEN EmptyDict ELSE d

\* set_grades_in_column: the keyword arguments of the i-th set_grade call
set_grade_kwargs_always_overwrite(args, i) ==
    [user_name |-> args.grades_as_scores[i][1],
     grade_as_score |-> args.grades_as_scores[i][2],
     grade_as_text |->
        DictGet(dict_or_empty(args.grades_as_text),
                args.grades_as_scores[i][1], PyStr("")),
     grade_feedback |->
        DictGet(dict_or_empty(args.grades_feedback),
                args.grades_as_scores[i][1], PyStr("")),
     overwrite |-> TRUE]
set_grade_kwargs(args, i) ==
    [user_name |-> args.grades_as_scores[i][1],
     grade_as_score |-> args.grades_as_scores[i][2],
     grade_as_text |->
        DictGet(dict_or_empty(args.grades_as_text),
                args.grades_as_scores[i][1], PyStr("")),
     grade_feedback |->
        DictGet(dict_or_empty(args.grades_feedback),
                args.grades_as_scores[i][1], PyStr("")),
     overwrite |-> args.overwrite]

\* The call: the locals before the loop
set_grades_in_column_call(args) ==
    /\ batch_pc = "idle"
    /\ sg_pc[MainCaller] = "idle"
    /\ batch_pc' = "loop"
    /\ batch_args' = args
    /\ batch_index' = 1
    /\ batch_return' = <<>>
    /\ batch_calls' = <<>>
    /\ batch_start' = gradebook
    /\ sg_requests' = [sg_requests EXCEPT ![MainCaller] = <<>>]
    /\ UNCHANGED <<gradebook, sg_pc, sg_args, current_grade, sg_return,
                   cell_at_call>>
    /\ OnlyGradebook

\* The loop head: the next item's set_grade call, or the return
set_grades_in_column_next ==
    /\ batch_pc = "loop"
    /\ sg_pc[MainCaller] = "idle"
    /\ IF batch_index <= Len(batch_args.grades_as_scores)
       THEN LET kwargs == set_grade_kwargs(batch_args, batch_index) IN
            /\ EnterSetGrade(MainCaller, kwargs, sg_requests[MainCaller])
            /\ batch_calls' = Append(batch_calls, kwargs)
            /\ UNCHANGED batch_pc
       ELSE /\ batch_pc' = "done"
            /\ UNCHANGED <<sg_pc, sg_args, current_grade, sg_return,
                           sg_requests, cell_at_call, batch_calls>>
    /\ UNCHANGED <<gradebook, batch_args, batch_index, batch_return,
                   batch_start>>
    /\ OnlyGradebook

\* The loop body's end: return_value.append(<result of set_grade>)
set_grades_in_column_append ==
    /\ batch_pc = "loop"
    /\ sg_pc[MainCaller] = "done"
    /\ batch_return' = Append(batch_return, sg_return[MainCaller])
    /\ batch_index' = batch_index + 1
    /\ sg_pc' = [sg_pc EXCEPT ![MainCaller] = "idle"]
    /\ UNCHANGED <<gradebook, sg_args, current_grade, sg_return, sg_requests,
                   cell_at_call, batch_pc, batch_args, batch_calls,
                   batch_start>>
    /\ OnlyGradebook

----------------------------------------------------------------------------
(* Blackboard token cache: the api_token property                          *)

MaxTime == 5          \* the clock stops here
MaxExpiresIn == 3     \* the token endpoint's expires_in is 0..MaxExpiresIn

Token(n) == [token |-> n]
DateTime(t) == [t |-> t]

TokenResponses(n) ==
    { [access_token |-> Token(n), expires_in |-> e] : e \in 0..MaxExpiresIn }

NoResponse == [access_token |-> None, expires_in |-> 0]

NoObs == [start_token |-> None, start_expiry |-> None, checked |-> FALSE,
          first_remaining |-> 0, last_remaining |-> 0, posts |-> 0,
          sleeps |-> 0, stale |-> 0, fetched_at |-> 0]

\* api_token: datetime.now() + timedelta(seconds=expires_in)
expiration_one_late(fetch_time, expires_in) ==
    DateTime(fetch_time + expires_in + 1)
expiration(fetch_time, expires_in) == DateTime(fetch_time + expires_in)

\* api_token: (expiration - datetime.now()).total_seconds()
time_until_api_token_expiration == api_token_expiration_datetime.t - now

\* api_token: "if time_until_api_token_expiration <= 1"
token_is_stale_below_three(time_until) == time_until < 3
token_is_stale_when_expired(time_until) == time_until <= 0
token_is_stale(time_until) == time_until <= 1

SetTk(f, c, v) == [f EXCEPT ![c] = v]

\* An access of the property begins
api_token_access(c) ==
    /\ tk_pc[c] \in {"idle", "done"}
    /\ tk_pc' = SetTk(tk_pc, c, "l85")
    /\ tk_depth' = SetTk(tk_depth, c, 0)
    /\ tk_ret' = SetTk(tk_ret, c, None)
    /\ tk_response' = SetTk(tk_response, c, NoResponse)
    /\ tk_obs' = SetTk(tk_obs, c,
            [NoObs EXCEPT !.start_token = api_token,
                          !.start_expiry = api_token_expiration_datetime])
    /\ UNCHANGED <<now, api_token, api_token_expiration_datetime,
                   tokens_issued>>
    /\ OnlyToken

\* line 85: if self.__api_token is None
api_token_l85(c) ==
    /\ tk_pc[c] = "l85"
    /\ tk_pc' = SetTk(tk_pc, c, IF api_token = None THEN "l91" ELSE "l105")
    /\ UNCHANGED <<now, api_token, api_token_expiration_datetime,
                   tokens_issued, tk_depth, tk_response, tk_ret, tk_obs>>
    /\ OnlyToken

\* lines 91-98: the POST to the token endpoint and its JSON
api_token_l91(c) ==
    /\ tk_pc[c] = "l91"
    /\ \E r \in TokenResponses(tokens_issued + 1) :
            tk_response' = SetTk(tk_response, c, r)
    /\ tokens_issued' = tokens_issued + 1
    /\ tk_obs' = [tk_obs EXCEPT ![c].posts = @ + 1]
    /\ tk_pc' = SetTk(tk_pc, c, "l99")
    /\ UNCHANGED <<now, api_token, api_token_expiration_datetime, tk_depth,
                   tk_ret>>
    /\ OnlyToken

\* line 99: self.__api_token = api_token_response['access_token']
api_token_l99(c) ==
    /\ tk_pc[c] = "l99"
    /\ api_token' = tk_response[c].access_token
    /\ tk_pc' = SetTk(tk_pc, c, "l100")
    /\ UNCHANGED <<now, api_token_expiration_datetime, tokens_issued,
                   tk_depth, tk_response, tk_ret, tk_obs>>
    /\ OnlyToken

\* lines 100-103: self.api_token_expiration_datetime = now + expires_in
api_token_l100(c) ==
    /\ tk_pc[c] = "l100"
    /\ api_token_expiration_datetime' =
            expiration(now, tk_response[c].expires_in)
    /\ tk_obs' = [tk_obs EXCEPT ![c].fetched_at = now]
    /\ tk_pc' = SetTk(tk_pc, c, "l105")
    /\ UNCHANGED <<now, api_token, tokens_issued, tk_depth, tk_response,
                   tk_ret>>
    /\ OnlyToken

\* lines 105-108: the remaining validity and the test against 1 second;
\* subtracting from an expiration that is still None raises TypeError
api_token_l105(c) ==
    /\ tk_pc[c] = "l105"
    /\ IF api_token_expiration_datetime = None
       THEN /\ tk_pc' = SetTk(tk_pc, c, "raised")
            /\ UNCHANGED tk_obs
       ELSE LET left == time_until_api_token_expiration IN
            /\ tk_pc' = SetTk(tk_pc, c,
                    IF token_is_stale(left) THEN "l109" ELSE "l113")
            /\ tk_obs' = [tk_obs EXCEPT
                    ![c].checked = TRUE,
                    ![c].first_remaining =
                        IF tk_obs[c].checked THEN @ ELSE left,
                    ![c].last_remaining = left,
                    ![c].stale = IF token_is_stale(left) THEN @ + 1 ELSE @]
    /\ UNCHANGED <<now, api_token, api_token_expiration_datetime,
                   tokens_issued, tk_depth, tk_response, tk_ret>>
    /\ OnlyToken

\* line 109: self.__api_token = None
api_token_l109(c) ==
    /\ tk_pc[c] = "l109"
    /\ api_token' = None
    /\ tk_pc' = SetTk(tk_pc, c, "l110")
    /\ UNCHANGED <<now, api_token_expiration_datetime, tokens_issued,
                   tk_depth, tk_response, tk_ret, tk_obs>>
    /\ OnlyToken

\* line 110: sleep(1)
api_token_l110(c) ==
    /\ tk_pc[c] = "l110"
    /\ now < MaxTime
    /\ now' = now + 1
    /\ tk_obs' = [tk_obs EXCEPT ![c].sleeps = @ + 1]
    /\ tk_pc' = SetTk(tk_pc, c, "l111")
    /\ UNCHANGED <<api_token, api_token_expiration_datetime, tokens_issued,
                   tk_depth, tk_response, tk_ret>>
    /\ OnlyToken

\* line 111, right-hand side: the property calls itself
api_token_l111_call(c) ==
    /\ tk_pc[c] = "l111"
    /\ tk_depth' = SetTk(tk_depth, c, tk_depth[c] + 1)
    /\ tk_pc' = SetTk(tk_pc, c, "l85")
    /\ UNCHANGED <<now, api_token, api_token_expiration_datetime,
                   tokens_issued, tk_response, tk_ret, tk_obs>>
    /\ OnlyToken

\* line 111, the assignment: self.__api_token = <value of the inner call>
api_token_l111_assign(c) ==
    /\ tk_pc[c] = "l111r"
    /\ api_token' = tk_ret[c]
    /\ tk_pc' = SetTk(tk_pc, c, "l113")
    /\ UNCHANGED <<now, api_token_expiration_datetime, tokens_issued,
                   tk_depth, tk_response, tk_ret, tk_obs>>
    /\ OnlyToken

\* line 113: return self.__api_token, to the caller or to the frame below
api_token_l113(c) ==
    /\ tk_pc[c] = "l113"
    /\ tk_ret' = SetTk(tk_ret, c, api_token)
    /\ IF tk_depth[c] = 0
       THEN /\ tk_pc' = SetTk(tk_pc, c, "done")
            /\ UNCHANGED tk_depth
       ELSE /\ tk_pc' = SetTk(tk_pc, c, "l111r")
            /\ tk_depth' = SetTk(tk_depth, c, tk_depth[c] - 1)
    /\ UNCHANGED <<now, api_token, api_token_expiration_datetime,
                   tokens_issued, tk_response, tk_obs>>
    /\ OnlyToken

\* Time passes
Tick ==
    /\ now < MaxTime
    /\ now' = now + 1
    /\ UNCHANGED <<api_token, api_token_expiration_datetime, tokens_issued,
                   tk_pc, tk_depth, tk_response, tk_ret, tk_obs>>
    /\ OnlyToken

api_token_step(c) ==
    \/ api_token_access(c)
    \/ api_token_l85(c)
    \/ api_token_l91(c)
    \/ api_token_l99(c)
    \/ api_token_l100(c)
    \/ api_token_l105(c)
    \/ api_token_l109(c)
    \/ api_token_l110(c)
    \/ api_token_l111_call(c)
    \/ api_token_l111_assign(c)
    \/ api_token_l113(c)

\* __init__: no token, no expiration
TokenInit(mainPc) ==
    /\ now = 0
    /\ api_token = None
    /\ api_token_expiration_datetime = None
    /\ tokens_issued = 0
    /\ tk_pc = [c \in Callers |-> IF c = MainCaller THEN mainPc ELSE "off"]
    /\ tk_depth = [c \in Callers |-> 0]
    /\ tk_response = [c \in Callers |-> NoResponse]
    /\ tk_ret = [c \in Callers |-> None]
    /\ tk_obs = [c \in Callers |-> NoObs]

----------------------------------------------------------------------------
(* Paginated listings, body-cursor style: BlackboardCourse.gradebook_columns *)
(* (through the handle_api_paging decorator), gradebook_schemas and          *)
(* get_grades_in_column                                                      *)

MaxPages == 3         \* a listing has 1..MaxPages pages
MaxItems == 1         \* a page has 0..MaxItems items

Url(n) == [url |-> n]
BaseUrl == Url(0)
Item(p, j) == [page |-> p, item |-> j]

BodyPagingFns == {"gradebook_columns", "gradebook_schemas",
                  "get_grades_in_column"}

PagingOff ==
    /\ pg_pc = "off"
    /\ pg_fn = "none"
    /\ pg_site = <<>>
    /\ pg_next = None
    /\ pg_requests = <<>>
    /\ pg_yielded = <<>>

\* The URLs of a k-page chain: the base URL, then distinct other URLs
ChainUrls(k) ==
    { urls \in [1..k -> {Url(n) : n \in 0..(MaxPages - 1)}] :
        /\ urls[1] = BaseUrl
        /\ \A i, j \in 1..k : urls[i] = urls[j] => i = j }

\* The JSON body of page i of k: every page but the last names the next page
\* in paging.nextPage; the last has no paging key, or a paging without nextPage
BodyOfPage(urls, counts, i, k, lastForm) ==
    LET results == [key \in {"results"} |->
                        [j \in 1..counts[i] |-> Item(i, j)]]
        paging == IF i < k
                  THEN [key \in {"paging"} |->
                            [sub \in {"nextPage"} |-> urls[i + 1]]]
                  ELSE IF lastForm = "no_nextPage"
                       THEN [key \in {"paging"} |-> EmptyDict]
                       ELSE EmptyDict
    IN  results @@ paging

BodySites ==
    UNION { { [i \in 1..k |->
                    [url |-> urls[i],
                     body |-> BodyOfPage(urls, counts, i, k, lastForm)]] :
                urls \in ChainUrls(k),
                counts \in [1..k -> 0..MaxItems],
                lastForm \in {"no_paging", "no_nextPage"} } :
            k \in 1..MaxPages }

\* The server's answer to a GET of a URL
ServerBody(site, url) ==
    site[CHOOSE i \in 1..Len(site) : site[i].url = url].body

\* "while api_request_url": None and '' end the loop
Truthy(v) == v # None /\ v # PyStr("")

\* "yield from api_response.json().get('results', [])" in the decorator,
\* "yield from api_response['results']" in the two hand-written loops
page_results(fn, body) ==
    IF fn = "gradebook_columns" THEN DictGet(body, "results", <<>>)
    ELSE body["results"]

\* try: api_response['paging']['nextPage'] except KeyError: None
next_page_url_none(body) == None
next_page_url(body) ==
    IF "paging" \in DOMAIN body /\ "nextPage" \in DOMAIN body["paging"]
    THEN body["paging"]["nextPage"]
    ELSE None

\* The listing is called and its generator started
body_paging_call(fn) ==
    /\ pg_pc = "idle"
    /\ pg_pc' = "run"
    /\ pg_fn' = fn
    /\ pg_next' = BaseUrl
    /\ pg_requests' = <<>>
    /\ pg_yielded' = <<>>
    /\ UNCHANGED pg_site
    /\ OnlyPaging

\* One turn of the while loop: GET, yield the page's results, next URL
body_paging_fetch ==
    /\ pg_pc = "run"
    /\ pg_fn \in BodyPagingFns
    /\ Truthy(pg_next)
    /\ LET body == ServerBody(pg_site, pg_next) IN
        /\ pg_requests' = Append(pg_requests, pg_next)
        /\ pg_yielded' = pg_yielded \o page_results(pg_fn, body)
        /\ pg_next' = next_page_url(body)
    /\ UNCHANGED <<pg_pc, pg_fn, pg_site>>
    /\ OnlyPaging

\* The while condition fails: the generator is exhausted
body_paging_stop ==
    /\ pg_pc = "run"
    /\ pg_fn \in BodyPagingFns
    /\ ~Truthy(pg_next)
    /\ pg_pc' = "done"
    /\ UNCHANGED <<pg_fn, pg_site, pg_next, pg_requests, pg_yielded>>
    /\ OnlyPaging

----------------------------------------------------------------------------
(* Paginated listings, Link-header style: GitHubOrganization.org_teams,    *)
(* get_team_membership, get_repo_teams, summarize_prs_by_author and        *)
(* get_pr_authors.  A Link header is kept as the sequence of its           *)
(* comma-separated segments, each "<url>; rel="..."" as a url and a rel;   *)
(* an absent header is the empty sequence.  Only the page requests are     *)
(* kept (not the per-PR detail requests of summarize_prs_by_author).       *)

MaxPageRequests == 5  \* a listing that does not end is cut off here

LinkPagingFns == {"org_teams", "get_team_membership", "get_repo_teams",
                  "summarize_prs_by_author", "get_pr_authors"}

Segment(url, rel) == [url |-> url, rel |-> rel]

\* The segments the server sends with page i of k, in the order the layout
\* gives them ("prev_first" is prev, next, last, first)
LinkOfPage(urls, i, k, layout) ==
    LET prev == IF i > 1 THEN <<Segment(urls[i - 1], "prev")>> ELSE <<>>
        next == IF i < k THEN <<Segment(urls[i + 1], "next")>> ELSE <<>>
        last == IF i < k THEN <<Segment(urls[k], "last")>> ELSE <<>>
        first == IF i > 1 THEN <<Segment(urls[1], "first")>> ELSE <<>>
    IN  CASE layout = "prev_first" -> prev \o next \o last \o first
          [] layout = "next_first" -> next \o prev \o last \o first
          [] OTHER -> next

LinkSites ==
    UNION { { [i \in 1..k |->
                    [url |-> urls[i],
                     body |-> [key \in {"results"} |->
                                [j \in 1..counts[i] |-> Item(i, j)]],
                     link |-> LinkOfPage(urls, i, k, layout)]] :
                urls \in ChainUrls(k),
                counts \in [1..k -> 0..MaxItems],
                layout \in {"prev_first", "next_first", "next_only"} } :
            k \in 1..MaxPages }

ServerLink(site, url) ==
    site[CHOOSE i \in 1..Len(site) : site[i].url = url].link

HasRelNext(link) == \E i \in 1..Len(link) : link[i].rel = "next"

\* org_teams: the for loop over the segments; the url of the first segment
\* whose rel is next, None when the loop ends without a break
next_url_by_segments(link) ==
    IF HasRelNext(link)
    THEN link[CHOOSE i \in 1..Len(link) :
                /\ link[i].rel = "next"
                /\ \A j \in 1..(i - 1) : link[j].rel # "next"].url
    ELSE None

\* The other four: if 'rel="next"' is in the header, re.search('<.*?>')
\* gives the first <...> of the header, the url of its first segment
next_url_by_first_match(link) ==
    IF HasRelNext(link) THEN link[1].url ELSE None

next_link_url(fn, link) ==
    IF fn = "org_teams" THEN next_url_by_segments(link)
    ELSE next_url_by_first_match(link)

link_paging_call(fn) ==
    /\ pg_pc = "idle"
    /\ pg_pc' = "run"
    /\ pg_fn' = fn
    /\ pg_next' = BaseUrl
    /\ pg_requests' = <<>>
    /\ pg_yielded' = <<>>
    /\ UNCHANGED pg_site
    /\ OnlyPaging

\* One turn of the while loop: GET, the page's items, the next URL
link_paging_fetch ==
    /\ pg_pc = "run"
    /\ pg_fn \in LinkPagingFns
    /\ Truthy(pg_next)
    /\ Len(pg_requests) < MaxPageRequests
    /\ pg_requests' = Append(pg_requests, pg_next)
    /\ pg_yielded' = pg_yielded \o ServerBody(pg_site, pg_next)["results"]
    /\ pg_next' = next_link_url(pg_fn, ServerLink(pg_site, pg_next))
    /\ UNCHANGED <<pg_pc, pg_fn, pg_site>>
    /\ OnlyPaging

link_paging_stop ==
    /\ pg_pc = "run"
    /\ pg_fn \in LinkPagingFns
    /\ ~Truthy(pg_next)
    /\ pg_pc' = "done"
    /\ UNCHANGED <<pg_fn, pg_site, pg_next, pg_requests, pg_yielded>>
    /\ OnlyPaging

----------------------------------------------------------------------------
(* Paginated listing, cursor style: SlackAccount.public_channels.  A       *)
(* request is kept with its HTTP headers and its parameters apart.  The    *)
(* server answers either as the mock of the unit test does, picking the    *)
(* page by the header named cursor, or as the documented Web API does,     *)
(* picking it by the request parameter named cursor; no cursor or an empty *)
(* one is the first page.                                                  *)

MaxCursorRequests == 4  \* a listing that does not end is cut off here

Cursor(i) == IF i = 1 THEN PyStr("") ELSE PyStr(DecimalString(i))

\* The last page either has no response_metadata, or a response_metadata
\* without next_cursor, or an empty next_cursor
CursorBodyOfPage(i, k, count, last_form) ==
    LET channels == [j \in 1..count |-> Item(i, j)]
        with_next(c) == [key \in {"channels", "response_metadata"} |->
                            IF key = "channels" THEN channels
                            ELSE [key2 \in {"next_cursor"} |-> c]]
    IN  CASE i < k -> with_next(Cursor(i + 1))
          [] i = k /\ last_form = "empty_next_cursor" -> with_next(PyStr(""))
          [] i = k /\ last_form = "no_next_cursor" ->
                [key \in {"channels", "response_metadata"} |->
                    IF key = "channels" THEN channels ELSE EmptyDict]
          [] OTHER -> [key \in {"channels"} |-> channels]

CursorSites ==
    UNION { { [reads |-> reads,
               pages |-> [i \in 1..k |->
                            [cursor |-> Cursor(i),
                             body |-> CursorBodyOfPage(i, k, counts[i],
                                                       last_form)]]] :
                reads \in {"headers", "params"},
                counts \in [1..k -> 0..MaxItems],
                last_form \in {"no_metadata", "no_next_cursor",
                               "empty_next_cursor"} } :
            k \in 1..MaxPages }

\* requests.post(url=..., headers={...}): every argument of the call is an
\* HTTP header; the request has no parameters
channels_list_request(cursor_position) ==
    [url |-> "channels.list",
     headers |-> [key \in {"Authorization", "cursor", "exclude_archived",
                           "exclude_members", "limit"} |->
                    CASE key = "Authorization" -> PyStr("Bearer")
                      [] key = "cursor" -> cursor_position
                      [] key = "limit" -> PyStr("200")
                      [] OTHER -> PyStr("true")],
     params |-> EmptyDict]

ServerChannelsList(site, request) ==
    LET given == IF site.reads = "headers"
                 THEN DictGet(request.headers, "cursor", PyStr(""))
                 ELSE DictGet(request.params, "cursor", PyStr(""))
    IN  site.pages[CHOOSE i \in 1..Len(site.pages) :
                        site.pages[i].cursor = given].body

\* channels_response['response_metadata']['next_cursor'] does not raise
\* KeyError
HasNextCursor_and_not_empty(body) ==
    /\ "response_metadata" \in DOMAIN body
    /\ "next_cursor" \in DOMAIN body["response_metadata"]
    /\ body["response_metadata"]["next_cursor"] # PyStr("")
HasNextCursor(body) ==
    /\ "response_metadata" \in DOMAIN body
    /\ "next_cursor" \in DOMAIN body["response_metadata"]

public_channels_call ==
    /\ pg_pc = "idle"
    /\ pg_pc' = "run"
    /\ pg_fn' = "public_channels"
    /\ pg_next' = PyStr("")
    /\ pg_requests' = <<>>
    /\ pg_yielded' = <<>>
    /\ UNCHANGED pg_site
    /\ OnlyPaging

\* One turn of "while True": POST, the page's channels, then the next cursor
\* or, on KeyError, break
public_channels_turn ==
    /\ pg_pc = "run"
    /\ pg_fn = "public_channels"
    /\ Len(pg_requests) < MaxCursorRequests
    /\ LET request == channels_list_request(pg_next)
           channels_response == ServerChannelsList(pg_site, request)
       IN  /\ pg_requests' = Append(pg_requests,
                                [request |-> request,
                                 response |-> channels_response])
           /\ pg_yielded' = pg_yielded \o channels_response["channels"]
           /\ IF HasNextCursor(channels_response)
              THEN /\ pg_next' =
                        channels_response["response_metadata"]["next_cursor"]
                   /\ UNCHANGED pg_pc
              ELSE /\ pg_pc' = "done"
                   /\ UNCHANGED pg_next
    /\ UNCHANGED <<pg_fn, pg_site>>
    /\ OnlyPaging

----------------------------------------------------------------------------
(* Slack workspace client: the server and what the methods share.  Ids,    *)
(* names and texts are strings; "" is the id of a DM channel that does not *)
(* exist.  A dict is a function on its keys; slack_locals is the dict of   *)
(* the local names bound so far.                                           *)

SlackUserNames == {"u1", "u2"}
UserId == [u1 |-> "U1", u2 |-> "U2", ghost |-> "U9"]
DmChannelId == [U1 |-> "D1", U2 |-> "D2"]

DictSet(d, key, value) ==
    [k \in (DOMAIN d) \cup {key} |-> IF k = key THEN value ELSE d[k]]

Member(name) == [name |-> name, id |-> UserId[name]]
Im(user) == [user |-> user, id |-> DmChannelId[user]]

NoChannels == [kind \in {"public", "private"} |-> None]

\* One entry of slack_log: a request (with its JSON or form body, and
\* whether it reached the server) or a sleep
SlackRequest(op, json, reached) ==
    [op |-> op, json |-> json, reached |-> reached]

\* user_ids: "for user in members: return_value[user['name']] = user['id']"
user_ids(members) ==
    [name \in { members[i].name : i \in 1..Len(members) } |->
        members[CHOOSE i \in 1..Len(members) :
                    /\ members[i].name = name
                    /\ \A j \in (i + 1)..Len(members) :
                            members[j].name # name].id]

\* user_dm_channels, first loop: channels[channel['user']] = channel['id']
im_channels(ims) ==
    [user \in { ims[i].user : i \in 1..Len(ims) } |->
        ims[CHOOSE i \in 1..Len(ims) :
                /\ ims[i].user = user
                /\ \A j \in (i + 1)..Len(ims) : ims[j].user # user].id]

\* user_dm_channels, second loop: channels.get(users[user], '')
user_dm_channels(channels, users) ==
    [user \in DOMAIN users |-> DictGet(channels, users[user], "")]

\* No try/except anywhere in the client: an exception leaves the method
pc_after_exception_retry == "run"
pc_after_exception == "raised"

SlackOff ==
    /\ workspace = [members |-> <<>>, ims |-> <<>>, channels |-> NoChannels,
                    delivered |-> <<>>]
    /\ slack_pc = "off"
    /\ slack_fn = "none"
    /\ slack_args = EmptyDict
    /\ slack_step = 1
    /\ slack_locals = EmptyDict
    /\ slack_return = EmptyDict
    /\ slack_log = <<>>
    /\ slack_start = workspace

SlackIdle(workspaces) ==
    /\ workspace \in workspaces
    /\ slack_pc = "idle"
    /\ slack_fn = "none"
    /\ slack_args = EmptyDict
    /\ slack_step = 1
    /\ slack_locals = EmptyDict
    /\ slack_return = EmptyDict
    /\ slack_log = <<>>
    /\ slack_start = workspace

\* Entry into a method: its locals before its first statement
SlackEnter(fn, args) ==
    /\ slack_pc' = "run"
    /\ slack_fn' = fn
    /\ slack_args' = args
    /\ slack_step' = 1
    /\ slack_locals' = EmptyDict
    /\ slack_return' = EmptyDict
    /\ slack_log' = <<>>
    /\ slack_start' = workspace
    /\ UNCHANGED workspace
    /\ OnlySlack

----------------------------------------------------------------------------
(* Slack workspace client: direct_message_by_username                      *)

Texts == {"hi", "yo"}

DmArgs == [messages_by_username : ItemsOver(SlackUserNames, Texts)]

\* Workspaces for direct messages: u1 is a member, u2 may be; each member
\* may or may not have a DM channel with the account
DmWorkspaces ==
    { [members |-> members, ims |-> ims, channels |-> NoChannels,
       delivered |-> <<>>] :
        members \in {<<Member("u1")>>, <<Member("u1"), Member("u2")>>},
        ims \in {<<>>, <<Im("U1")>>, <<Im("U2")>>, <<Im("U1"), Im("U2")>>} }

\* chat.postMessage on the server: a message to a channel that exists is
\* delivered
ServerPostMessage(ws, json) ==
    IF \E i \in 1..Len(ws.ims) : ws.ims[i].id = json.channel
    THEN [ws EXCEPT !.delivered =
                Append(@, [channel |-> json.channel, text |-> json.text])]
    ELSE ws

\* The json argument of the post for one username
post_message_json(dm_channels, messages, username, text) ==
    [channel |-> dm_channels[username], text |-> text, as_user |-> "true"]

direct_message_by_username_call(args) ==
    /\ slack_pc = "idle"
    /\ SlackEnter("direct_message_by_username", args)

\* user_dm_channels: the im.list request and the channels dict
user_dm_channels_im_list ==
    /\ slack_pc = "run"
    /\ slack_fn = "direct_message_by_username"
    /\ "channels" \notin DOMAIN slack_locals
    /\ \E ok \in BOOLEAN :
        /\ slack_log' = Append(slack_log,
                               SlackRequest("im.list", EmptyDict, ok))
        /\ IF ok
           THEN /\ slack_locals' = DictSet(slack_locals, "channels",
                                           im_channels(workspace.ims))
                /\ UNCHANGED slack_pc
           ELSE /\ slack_pc' = pc_after_exception
                /\ UNCHANGED slack_locals
    /\ UNCHANGED <<workspace, slack_fn, slack_args, slack_step, slack_return,
                   slack_start>>
    /\ OnlySlack

\* user_dm_channels: self.user_ids (the users.list request) and the result
user_dm_channels_users_list ==
    /\ slack_pc = "run"
    /\ slack_fn = "direct_message_by_username"
    /\ "channels" \in DOMAIN slack_locals
    /\ "user_dm_channels" \notin DOMAIN slack_locals
    /\ \E ok \in BOOLEAN :
        /\ slack_log' = Append(slack_log,
                               SlackRequest("users.list", EmptyDict, ok))
        /\ IF ok
           THEN /\ slack_locals' =
                    DictSet(slack_locals, "user_dm_channels",
                            user_dm_channels(slack_locals["channels"],
                                             user_ids(workspace.members)))
                /\ UNCHANGED slack_pc
           ELSE /\ slack_pc' = pc_after_exception
                /\ UNCHANGED slack_locals
    /\ UNCHANGED <<workspace, slack_fn, slack_args, slack_step, slack_return,
                   slack_start>>
    /\ OnlySlack

\* One turn of "for username in messages_by_username": the post (KeyError
\* for a username that is no member) and the entry of return_value
direct_message_by_username_post ==
    /\ slack_pc = "run"
    /\ slack_fn = "direct_message_by_username"
    /\ "user_dm_channels" \in DOMAIN slack_locals
    /\ slack_step <= Len(slack_args.messages_by_username)
    /\ LET messages == slack_args.messages_by_username
           username == messages[slack_step][1]
           text == messages[slack_step][2]
           dm_channels == slack_locals["user_dm_channels"]
       IN  IF username \notin DOMAIN dm_channels
           THEN /\ slack_pc' = pc_after_exception
                /\ UNCHANGED <<workspace, slack_step, slack_return,
                               slack_log>>
           ELSE LET json == post_message_json(dm_channels, messages,
                                              username, text) IN
                \E ok \in BOOLEAN, reached \in BOOLEAN :
                    /\ ok => reached
                    /\ slack_log' = Append(slack_log,
                            SlackRequest("chat.postMessage", json, reached))
                    /\ workspace' = IF reached
                                    THEN ServerPostMessage(workspace, json)
                                    ELSE workspace
                    /\ IF ok
                       THEN /\ slack_return' =
                                DictSet(slack_return, dm_channels[username],
                                        text)
                            /\ slack_step' = slack_step + 1
                            /\ UNCHANGED slack_pc
                       ELSE /\ slack_pc' = pc_after_exception
                            /\ UNCHANGED <<slack_step, slack_return>>
    /\ UNCHANGED <<slack_fn, slack_args, slack_locals, slack_start>>
    /\ OnlySlack

direct_message_by_username_return ==
    /\ slack_pc = "run"
    /\ slack_fn = "direct_message_by_username"
    /\ "user_dm_channels" \in DOMAIN slack_locals
    /\ slack_step > Len(slack_args.messages_by_username)
    /\ slack_pc' = "done"
    /\ UNCHANGED <<workspace, slack_fn, slack_args, slack_step, slack_locals,
                   slack_return, slack_log, slack_start>>
    /\ OnlySlack

----------------------------------------------------------------------------
(* Slack workspace client: create_and_setup_channel.  The workspace holds  *)
(* at most one public and one private channel; a listing is one request.   *)

ChannelNames == {"lab", "Lab"}
InviteeNames == {"u1", "u2", "ghost"}
MaxInvitees == 2

\* str.lower() on the channel names of the model
lower(name) == IF name = "Lab" THEN "lab" ELSE name

KindOf(public) == IF public THEN "public" ELSE "private"

\* The Web API method of each call, by kind of channel
ChannelMethod ==
    [public |-> [list |-> "channels.list", create |-> "channels.create",
                 invite |-> "channels.invite",
                 purpose |-> "channels.setPurpose",
                 topic |-> "channels.setTopic", info |-> "channels.info"],
     private |-> [list |-> "groups.list", create |-> "groups.create",
                  invite |-> "groups.invite",
                  purpose |-> "groups.setPurpose",
                  topic |-> "groups.setTopic", info |-> "groups.info"]]

ChannelId == [public |-> "C1", private |-> "G1"]

ChannelArgs ==
    [channel_name : ChannelNames,
     user_names_to_invite :
        UNION { [1..n -> InviteeNames] : n \in 0..MaxInvitees },
     channel_purpose : {"P"}, channel_topic : {"T"},
     public : BOOLEAN, sleep_time : {1}]

NewChannel(kind, name) ==
    [name |-> name, id |-> ChannelId[kind], members |-> {},
     purpose |-> "", topic |-> ""]

\* Workspaces for channel set-up: u1 and u2 are members, and a channel of
\* the name may exist already
ChannelWorkspaces ==
    { [members |-> <<Member("u1"), Member("u2")>>, ims |-> <<>>,
       channels |-> channels, delivered |-> <<>>] :
        channels \in { NoChannels,
                       [NoChannels EXCEPT
                            !["public"] = NewChannel("public", "lab")],
                       [NoChannels EXCEPT
                            !["private"] = NewChannel("private", "lab")] } }

Step(op, user_name) == [op |-> op, user_name |-> user_name]

RECURSIVE InviteSteps(_)
InviteSteps(user_names) ==
    IF user_names = <<>> THEN <<>>
    ELSE <<Step("invite", Head(user_names)), Step("sleep", "")>>
            \o InviteSteps(Tail(user_names))

\* The statements of either branch of create_and_setup_channel, in order;
\* only the private branch sleeps after setting the topic
channel_steps_topic_first(args) ==
    <<Step("create", ""), Step("sleep", "")>>
        \o InviteSteps(args.user_names_to_invite)
        \o <<Step("topic", ""), Step("sleep", ""), Step("purpose", "")>>
        \o (IF args.public THEN <<>> ELSE <<Step("sleep", "")>>)
        \o <<Step("info", "")>>
channel_steps(args) ==
    <<Step("create", ""), Step("sleep", "")>>
        \o InviteSteps(args.user_names_to_invite)
        \o <<Step("purpose", ""), Step("sleep", ""), Step("topic", "")>>
        \o (IF args.public THEN <<>> ELSE <<Step("sleep", "")>>)
        \o <<Step("info", "")>>

\* {public,private}_channels_ids: channel name -> channel id
channels_ids(ws, kind) ==
    IF ws.channels[kind] = None THEN EmptyDict
    ELSE [name \in {ws.channels[kind].name} |-> ws.channels[kind].id]

\* The body of the request of a step
channel_json(args, step, locals) ==
    CASE step.op = "create" -> [name |-> args.channel_name]
      [] step.op = "invite" ->
            [channel |-> locals["channel"], user |-> locals["user"]]
      [] step.op = "purpose" ->
            [channel |-> locals["channel"], purpose |-> args.channel_purpose]
      [] step.op = "topic" ->
            [channel |-> locals["channel"], topic |-> args.channel_topic]
      [] OTHER -> [channel |-> locals["channel"], include_locale |-> "true"]

\* The server applies a request: a create of a name that is taken, and any
\* request for a channel id it does not hold, change nothing
ServerChannelRequest(ws, kind, op, json) ==
    LET channel == ws.channels[kind]
        held == channel # None /\ op # "create" /\ channel.id = json.channel
    IN  CASE op = "create" /\ channel = None ->
                [ws EXCEPT !.channels[kind] =
                                NewChannel(kind, lower(json.name))]
          [] op = "invite" /\ held ->
                [ws EXCEPT !.channels[kind].members = @ \cup {json.user}]
          [] op = "purpose" /\ held ->
                [ws EXCEPT !.channels[kind].purpose = json.purpose]
          [] op = "topic" /\ held ->
                [ws EXCEPT !.channels[kind].topic = json.topic]
          [] OTHER -> ws

CurrentStep == channel_steps(slack_args)[slack_step]

InChannelSetup ==
    /\ slack_pc = "run"
    /\ slack_fn = "create_and_setup_channel"

create_and_setup_channel_call(args) ==
    /\ slack_pc = "idle"
    /\ SlackEnter("create_and_setup_channel", args)

\* sleep(sleep_time)
create_and_setup_channel_sleep ==
    /\ InChannelSetup
    /\ CurrentStep.op = "sleep"
    /\ slack_log' = Append(slack_log,
            SlackRequest("sleep", [seconds |-> slack_args.sleep_time], FALSE))
    /\ slack_step' = slack_step + 1
    /\ UNCHANGED <<workspace, slack_pc, slack_fn, slack_args, slack_locals,
                   slack_return, slack_start>>
    /\ OnlySlack

\* self.{public,private}_channels_ids[channel_name.lower()]: the listing
\* request, then the lookup (KeyError for a name the listing lacks)
channel_id_lookup ==
    /\ InChannelSetup
    /\ CurrentStep.op \in {"invite", "purpose", "topic", "info"}
    /\ "channel" \notin DOMAIN slack_locals
    /\ LET kind == KindOf(slack_args.public)
           ids == channels_ids(workspace, kind)
           key == lower(slack_args.channel_name)
       IN  \E ok \in BOOLEAN :
            /\ slack_log' = Append(slack_log,
                    SlackRequest(ChannelMethod[kind].list, EmptyDict, ok))
            /\ IF ok /\ key \in DOMAIN ids
               THEN /\ slack_locals' = DictSet(slack_locals, "channel",
                                               ids[key])
                    /\ UNCHANGED slack_pc
               ELSE /\ slack_pc' = pc_after_exception
                    /\ UNCHANGED slack_locals
    /\ UNCHANGED <<workspace, slack_fn, slack_args, slack_step, slack_return,
                   slack_start>>
    /\ OnlySlack

\* self.user_ids[user_name] of an invitation: the users.list request, then
\* the lookup (KeyError for a name that is no member)
channel_user_lookup ==
    /\ InChannelSetup
    /\ CurrentStep.op = "invite"
    /\ "channel" \in DOMAIN slack_locals
    /\ "user" \notin DOMAIN slack_locals
    /\ LET users == user_ids(workspace.members)
           user_name == CurrentStep.user_name
       IN  \E ok \in BOOLEAN :
            /\ slack_log' = Append(slack_log,
                    SlackRequest("users.list", EmptyDict, ok))
            /\ IF ok /\ user_name \in DOMAIN users
               THEN /\ slack_locals' = DictSet(slack_locals, "user",
                                               users[user_name])
                    /\ UNCHANGED slack_pc
               ELSE /\ slack_pc' = pc_after_exception
                    /\ UNCHANGED slack_locals
    /\ UNCHANGED <<workspace, slack_fn, slack_args, slack_step, slack_return,
                   slack_start>>
    /\ OnlySlack

\* The request of a step, once its ids are looked up; a request that raises
\* may or may not have reached the server.  The reply is not inspected, but
\* for that of the last step, which is returned.
channel_request ==
    /\ InChannelSetup
    /\ LET op == CurrentStep.op
           kind == KindOf(slack_args.public)
       IN
        /\ \/ op = "create"
           \/ op = "invite" /\ {"channel", "user"} \subseteq DOMAIN slack_locals
           \/ op \in {"purpose", "topic", "info"}
                /\ "channel" \in DOMAIN slack_locals
        /\ LET json == channel_json(slack_args, CurrentStep, slack_locals)
               served == ServerChannelRequest(workspace, kind, op, json)
           IN  \E ok \in BOOLEAN, reached \in BOOLEAN :
                /\ ok => reached
                /\ slack_log' = Append(slack_log,
                        SlackRequest(ChannelMethod[kind][op], json, reached))
                /\ workspace' = IF reached THEN served ELSE workspace
                /\ IF ok
                   THEN /\ slack_locals' = EmptyDict
                        /\ IF op = "info"
                           THEN /\ slack_pc' = "done"
                                /\ slack_return' =
                                    [channel |-> served.channels[kind]]
                                /\ UNCHANGED slack_step
                           ELSE /\ slack_step' = slack_step + 1
                                /\ UNCHANGED <<slack_pc, slack_return>>
                   ELSE /\ slack_pc' = pc_after_exception
                        /\ UNCHANGED <<slack_step, slack_locals,
                                       slack_return>>
    /\ UNCHANGED <<slack_fn, slack_args, slack_start>>
    /\ OnlySlack

----------------------------------------------------------------------------
(* GitHub organisation client: remove_single_file_pr_deletions.  A file's  *)
(* contents are kept as fetched and split, text.split('\n'): the sequence  *)
(* of its lines, never empty, whose last element is "" exactly when the    *)
(* text ends with a newline (or is empty).  return_value only grows by     *)
(* pieces that end with a newline, so it is kept as the sequence of its    *)
(* newline-terminated lines.                                               *)

MaxBaseLines == 4   \* elements of the base file's split contents
MaxPrLines == 3     \* elements of the PR file's split contents

LineTexts == {"a", "b", ""}

FileContents(max) == UNION { [1..n -> LineTexts] : n \in 1..max }

ChangedFilesCounts == {0, 1, 2}

Max(S) == CHOOSE x \in S : \A y \in S : y <= x
Min(S) == CHOOSE x \in S : \A y \in S : x <= y

\* difflib.SequenceMatcher: the length of the common run of a from i and b
\* from j
RECURSIVE MatchLength(_, _, _, _)
MatchLength(a, b, i, j) ==
    IF i > Len(a) \/ j > Len(b) \/ a[i] # b[j] THEN 0
    ELSE 1 + MatchLength(a, b, i + 1, j + 1)

\* difflib.SequenceMatcher.find_longest_match without junk: the longest
\* common block, of those the one earliest in a, of those the one earliest
\* in b; size 0 when there is none
find_longest_match(a, b) ==
    IF a = <<>> \/ b = <<>> THEN [i |-> 1, j |-> 1, size |-> 0]
    ELSE LET size == Max({ MatchLength(a, b, i, j) :
                            i \in 1..Len(a), j \in 1..Len(b) })
             i == Min({ x \in 1..Len(a) :
                        \E y \in 1..Len(b) : MatchLength(a, b, x, y) = size })
             j == Min({ y \in 1..Len(b) : MatchLength(a, b, i, y) = size })
         IN  [i |-> i, j |-> j, size |-> size]

DiffLine(tag, text) == [tag |-> tag, text |-> text]

Tagged(tag, lines) == [k \in 1..Len(lines) |-> DiffLine(tag, lines[k])]

\* The lines of the diff's single hunk: get_matching_blocks (the longest
\* match, then the same to its left and to its right) and get_opcodes
\* (between two matches the lines of a with "-", then those of b with "+")
RECURSIVE diff_body(_, _)
diff_body(a, b) ==
    LET m == find_longest_match(a, b) IN
    IF m.size = 0 THEN Tagged("-", a) \o Tagged("+", b)
    ELSE diff_body(SubSeq(a, 1, m.i - 1), SubSeq(b, 1, m.j - 1))
            \o Tagged(" ", SubSeq(a, m.i, m.i + m.size - 1))
            \o diff_body(SubSeq(a, m.i + m.size, Len(a)),
                         SubSeq(b, m.j + m.size, Len(b)))

\* unified_diff(a, b, n) with n not below either length: nothing for equal
\* sequences, else the two file header lines, the hunk header and every
\* line of both; a line is its first character (tag) and the rest (text)
unified_diff(a, b) ==
    IF a = b THEN <<>>
    ELSE <<DiffLine("-", "-- "), DiffLine("+", "++ "), DiffLine("@", "@ ")>>
            \o diff_body(a, b)

\* The locals of the loop over the diff
LoopStart ==
    [return_value |-> <<>>, consecutive_line_breaks |-> 0,
     insertion_text |-> <<>>]

Blanks(n) == [k \in 1..n |-> ""]

\* One turn of "for line_index, line_contents in enumerate(file_diffs)"
loop_turn_without_inserted_blanks(acc, line_index, line) ==
    CASE line_index \in 0..2 -> acc
      [] line.text = "" /\ line.tag = "+" -> acc
      [] line.text = "" ->
            [acc EXCEPT !.consecutive_line_breaks = @ + 1]
      [] line.tag = "+" ->
            [acc EXCEPT !.insertion_text = Append(@, line.text)]
      [] OTHER ->
            [return_value |->
                acc.return_value \o acc.insertion_text
                    \o Blanks(acc.consecutive_line_breaks)
                    \o <<line.text>>,
             consecutive_line_breaks |-> 0,
             insertion_text |-> <<>>]
loop_turn(acc, line_index, line) ==
    CASE line_index \in 0..2 -> acc
      [] line.text = "" ->
            [acc EXCEPT !.consecutive_line_breaks = @ + 1]
      [] line.tag = "+" ->
            [acc EXCEPT !.insertion_text = Append(@, line.text)]
      [] OTHER ->
            [return_value |->
                acc.return_value \o acc.insertion_text
                    \o Blanks(acc.consecutive_line_breaks)
                    \o <<line.text>>,
             consecutive_line_breaks |-> 0,
             insertion_text |-> <<>>]

\* The loop over the first n lines of the diff (line_index is 0-based)
RECURSIVE loop_over(_, _)
loop_over(file_diffs, n) ==
    IF n = 0 THEN LoopStart
    ELSE loop_turn(loop_over(file_diffs, n - 1), n - 1, file_diffs[n])

\* After the loop: return_value += insertion_text, then
\* return_value += consecutive_line_breaks[1:]
without_deletions(base_file_contents, pr_file_contents) ==
    LET file_diffs == unified_diff(base_file_contents, pr_file_contents)
        acc == loop_over(file_diffs, Len(file_diffs))
    IN  acc.return_value \o acc.insertion_text
            \o Blanks(IF acc.consecutive_line_breaks = 0 THEN 0
                      ELSE acc.consecutive_line_breaks - 1)

CallLocal(name) == call_locals[name]

\* assert pr_details_response['changed_files'] == 1
assert_at_most_one_file(changed_files) == changed_files <= 1
assert_single_file(changed_files) == changed_files = 1

remove_single_file_pr_deletions_call ==
    /\ call_pc = "idle"
    /\ call_pc' = "pr_details"
    /\ call_fn' = "remove_single_file_pr_deletions"
    /\ UNCHANGED <<call_args, call_locals, call_log, call_return>>
    /\ OnlyCall

\* The PR's metadata, then "assert changed_files == 1"
remove_deletions_get_pr_details ==
    /\ call_pc = "pr_details"
    /\ \E changed_files \in ChangedFilesCounts :
        /\ call_locals' = DictSet(call_locals, "changed_files", changed_files)
        /\ call_pc' = IF assert_single_file(changed_files) THEN "pr_files"
                      ELSE "raised"
    /\ call_log' = Append(call_log, "pulls/pr_number")
    /\ UNCHANGED <<call_fn, call_args, call_return>>
    /\ OnlyCall

\* The PR's file list (its first file's raw_url)
remove_deletions_get_pr_files ==
    /\ call_pc = "pr_files"
    /\ call_pc' = "pr_file"
    /\ call_log' = Append(call_log, "pulls/pr_number/files")
    /\ UNCHANGED <<call_fn, call_args, call_locals, call_return>>
    /\ OnlyCall

\* The PR's file
remove_deletions_get_pr_file ==
    /\ call_pc = "pr_file"
    /\ \E contents \in FileContents(MaxPrLines) :
        call_locals' = DictSet(call_locals, "pr_file_contents", contents)
    /\ call_pc' = "base_file"
    /\ call_log' = Append(call_log, "raw_url")
    /\ UNCHANGED <<call_fn, call_args, call_return>>
    /\ OnlyCall

\* The file on the base branch, then the diff, the loop and the return
remove_deletions_get_base_file ==
    /\ call_pc = "base_file"
    /\ \E contents \in FileContents(MaxBaseLines) :
        /\ call_locals' = DictSet(call_locals, "base_file_contents", contents)
        /\ call_return' =
                without_deletions(contents, CallLocal("pr_file_contents"))
    /\ call_pc' = "done"
    /\ call_log' = Append(call_log, "base_file_url")
    /\ UNCHANGED <<call_fn, call_args>>
    /\ OnlyCall

----------------------------------------------------------------------------
(* Data conversions: flatten_dict.  data_items is a dict in its insertion  *)
(* order (a sequence of <<key, value>> items with distinct keys); the      *)
(* keyword options are those of the builtin sorted: reverse, and key       *)
(* (here str.lower, or none).                                              *)

FlattenKeys == {"A", "a", "b"}
FlattenValues == {PyInt(7), PyStr("x")}

\* The order of str: by code point, capitals before small letters
CodePoint == [A |-> 65, a |-> 97, b |-> 98]

str_lower(k) == IF k = "A" THEN "a" ELSE k

SortedOptions ==
    [reverse : BOOLEAN, key : {"none", "str.lower"}]

FlattenArgs ==
    [data_items : ItemsOver(FlattenKeys, FlattenValues),
     key_value_separator : {":", ""},
     items_separator : {";"},
     suppress_keys : BOOLEAN,
     kwargs : SortedOptions]

\* The value sorted compares for an element
sort_key(k, options) ==
    CodePoint[IF options.key = "str.lower" THEN str_lower(k) ELSE k]

\* x goes before e: sorted is stable, also with reverse=True
goes_before(x, e, options) ==
    IF options.reverse THEN sort_key(x, options) > sort_key(e, options)
    ELSE sort_key(x, options) < sort_key(e, options)

\* x put into a sorted list: before the first element it goes before
RECURSIVE insert_sorted(_, _, _)
insert_sorted(x, list, options) ==
    IF list = <<>> THEN <<x>>
    ELSE IF goes_before(x, Head(list), options) THEN <<x>> \o list
    ELSE <<Head(list)>> \o insert_sorted(x, Tail(list), options)

\* sorted(iterable, **options)
RECURSIVE sorted_ignoring_reverse(_, _)
sorted_ignoring_reverse(list, options) ==
    IF list = <<>> THEN <<>>
    ELSE insert_sorted(Last(list),
            sorted_ignoring_reverse(SubSeq(list, 1, Len(list) - 1), options),
            [options EXCEPT !.reverse = FALSE])
RECURSIVE sorted(_, _)
sorted(list, options) ==
    IF list = <<>> THEN <<>>
    ELSE insert_sorted(Last(list),
                       sorted(SubSeq(list, 1, Len(list) - 1), options),
                       options)

\* data_items.keys() and data_items[k]
ItemKeys(items) == [i \in 1..Len(items) |-> items[i][1]]
ItemValue(items, k) ==
    items[CHOOSE i \in 1..Len(items) : items[i][1] = k][2]

\* The loop of flatten_dict over the first n sorted keys
RECURSIVE flatten_loop(_, _, _)
flatten_loop(args, keys, n) ==
    IF n = 0 THEN args.items_separator
    ELSE flatten_loop(args, keys, n - 1)
            \o (IF args.suppress_keys THEN ""
                ELSE keys[n] \o args.key_value_separator)
            \o str(ItemValue(args.data_items, keys[n])).s
            \o (IF n - 1 < Len(args.data_items) - 1
                THEN args.items_separator ELSE "")

flatten_dict(args) ==
    LET keys == sorted(ItemKeys(args.data_items), args.kwargs)
    IN  flatten_loop(args, keys, Len(keys))

flatten_dict_call(args) ==
    /\ call_pc = "idle"
    /\ call_pc' = "run"
    /\ call_fn' = "flatten_dict"
    /\ call_args' = args
    /\ UNCHANGED <<call_locals, call_log, call_return>>
    /\ OnlyCall

flatten_dict_return ==
    /\ call_pc = "run"
    /\ call_fn = "flatten_dict"
    /\ call_pc' = "done"
    /\ call_return' = flatten_dict(call_args)
    /\ UNCHANGED <<call_fn, call_args, call_locals, call_log>>
    /\ OnlyCall

----------------------------------------------------------------------------
(* Data conversions: convert_csv_to_multimap.  The file is the rows the    *)
(* DictReader gives, each a dict on the field names; return_value is a     *)
(* dict in its insertion order.                                            *)

MaxRows == 3

fieldnames == <<"c1", "c2">>
CellTexts == {"x", "y"}

CsvRows ==
    UNION { [1..n -> [{"c1", "c2"} -> CellTexts]] : n \in 0..MaxRows }

MultimapArgs ==
    [rows : CsvRows,
     key_column : {None, PyStr("c2")},
     values_column : {None, PyStr("c1")},
     overwrite_values : BOOLEAN]

\* "if key_column is None: key_column = csv_file_reader.fieldnames[0]"
key_column_of(args) ==
    IF args.key_column = None THEN fieldnames[1] ELSE args.key_column.s

\* "if values_column is None: values_column = csv_file_reader.fieldnames[1]"
values_column_of(args) ==
    IF args.values_column = None THEN fieldnames[2] ELSE args.values_column.s

\* The place of a key in a dict in insertion order, 0 when it is not there
ItemIndex(items, key) ==
    IF \E i \in 1..Len(items) : items[i][1] = key
    THEN CHOOSE i \in 1..Len(items) : items[i][1] = key
    ELSE 0

\* return_value[key] = value on a dict in insertion order: a key that is
\* there keeps its place
ItemsSet(items, key, value) ==
    IF ItemIndex(items, key) = 0 THEN Append(items, <<key, value>>)
    ELSE [items EXCEPT ![ItemIndex(items, key)] = <<key, value>>]

\* One turn of "for row in csv_file_reader"
multimap_turn_keeping_first(return_value, key, value, overwrite_values) ==
    IF overwrite_values THEN ItemsSet(return_value, key, value)
    ELSE IF ItemIndex(return_value, key) # 0 THEN return_value
    ELSE ItemsSet(return_value, key, <<value>>)
multimap_turn(return_value, key, value, overwrite_values) ==
    IF overwrite_values THEN ItemsSet(return_value, key, value)
    ELSE IF ItemIndex(return_value, key) # 0
    THEN ItemsSet(return_value, key,
                  Append(ItemValue(return_value, key), value))
    ELSE ItemsSet(return_value, key, <<value>>)

RECURSIVE multimap_loop(_, _)
multimap_loop(args, n) ==
    IF n = 0 THEN <<>>
    ELSE multimap_turn(multimap_loop(args, n - 1),
                       args.rows[n][key_column_of(args)],
                       args.rows[n][values_column_of(args)],
                       args.overwrite_values)

convert_csv_to_multimap(args) == multimap_loop(args, Len(args.rows))

convert_csv_to_multimap_call(args) ==
    /\ call_pc = "idle"
    /\ call_pc' = "run"
    /\ call_fn' = "convert_csv_to_multimap"
    /\ call_args' = args
    /\ UNCHANGED <<call_locals, call_log, call_return>>
    /\ OnlyCall

convert_csv_to_multimap_return ==
    /\ call_pc = "run"
    /\ call_fn = "convert_csv_to_multimap"
    /\ call_pc' = "done"
    /\ call_return' = convert_csv_to_multimap(call_args)
    /\ UNCHANGED <<call_fn, call_args, call_locals, call_log>>
    /\ OnlyCall

----------------------------------------------------------------------------
(* Mail merges: mail_merge_from_dict.  A template is a sequence of pieces, *)
(* literal text or a variable; template_fp is a file with a read position; *)
(* data_dict and return_value are dicts in insertion order.                *)

MaxRecords == 2
MaxPieces == 2

MergeKeys == {"k1", "k2", "k3"}
TemplateVariables == {"name", "grade"}
VariableTexts == [name |-> {"x", "y"}, grade |-> {"7"}]
Pieces == {[text |-> "Hi "]} \cup { [variable |-> v] : v \in TemplateVariables }
Templates == UNION { [1..n -> Pieces] : n \in 0..MaxPieces }

\* A record gives texts to some of the variables
Records ==
    UNION { { r \in [vs -> {"x", "y", "7"}] :
                \A v \in vs : r[v] \in VariableTexts[v] }
            : vs \in SUBSET TemplateVariables }

DataDicts ==
    UNION { { d \in [1..n -> MergeKeys \X Records] :
                \A i, j \in 1..n : d[i][1] = d[j][1] => i = j }
            : n \in 0..MaxRecords }

\* template_fp.read(): what is left of the file from its position
read(fp) == SubSeq(fp.contents, fp.position + 1, Len(fp.contents))

\* Template.render(record): the pieces in a row, a variable as the record's
\* text for it and as nothing when the record has none
RenderPiece(piece, record) ==
    IF "text" \in DOMAIN piece THEN piece.text
    ELSE IF piece.variable \in DOMAIN record THEN record[piece.variable]
    ELSE ""

RECURSIVE render(_, _)
render(template_text, record) ==
    IF template_text = <<>> THEN ""
    ELSE RenderPiece(Head(template_text), record)
            \o render(Tail(template_text), record)

\* "return_value[k] = template_text.render(data_dict[k])"
merge_turn_of_first_record(return_value, template_text, data_dict, n) ==
    ItemsSet(return_value, data_dict[n][1],
             render(template_text, data_dict[1][2]))
merge_turn(return_value, template_text, data_dict, n) ==
    ItemsSet(return_value, data_dict[n][1],
             render(template_text, data_dict[n][2]))

mail_merge_from_dict_call ==
    /\ call_pc = "idle"
    /\ \E template \in Templates, data_dict \in DataDicts :
        call_args' = [template_fp |-> [contents |-> template, position |-> 0],
                      data_dict |-> data_dict]
    /\ call_pc' = "read"
    /\ call_fn' = "mail_merge_from_dict"
    /\ UNCHANGED <<call_locals, call_log, call_return>>
    /\ OnlyCall

\* "template_text = Template(template_fp.read())", "return_value =
\* OrderedDict()"
mail_merge_read_template ==
    /\ call_pc = "read"
    /\ call_fn = "mail_merge_from_dict"
    /\ call_locals' = [template_text |-> read(call_args.template_fp),
                       return_value |-> <<>>,
                       n |-> 0]
    /\ call_args' = [call_args EXCEPT
                        !.template_fp.position =
                            Len(call_args.template_fp.contents)]
    /\ call_log' = Append(call_log, "template_fp.read")
    /\ call_pc' = "loop"
    /\ UNCHANGED <<call_fn, call_return>>
    /\ OnlyCall

\* One turn of "for k in data_dict"
mail_merge_render ==
    /\ call_pc = "loop"
    /\ call_fn = "mail_merge_from_dict"
    /\ call_locals.n < Len(call_args.data_dict)
    /\ call_locals' =
        [call_locals EXCEPT
            !.n = @ + 1,
            !.return_value =
                merge_turn(@, call_locals.template_text,
                           call_args.data_dict, call_locals.n + 1)]
    /\ UNCHANGED <<call_pc, call_fn, call_args, call_log, call_return>>
    /\ OnlyCall

mail_merge_from_dict_return ==
    /\ call_pc = "loop"
    /\ call_fn = "mail_merge_from_dict"
    /\ call_locals.n = Len(call_args.data_dict)
    /\ call_pc' = "done"
    /\ call_return' = call_locals.return_value
    /\ UNCHANGED <<call_fn, call_args, call_locals, call_log>>
    /\ OnlyCall

----------------------------------------------------------------------------
(* Data conversions: convert_xlsx_to_yaml_calendar.  A date is its         *)
(* proleptic Gregorian ordinal (date.toordinal()), a cell text a sequence  *)
(* of characters, data_dict the rows convert_xlsx_to_dict gives, keyed by  *)
(* the week-number column, and the YAML string its sequence of lines.      *)

MaxWeekRows == 2
StartDateSpan == 21
\* date(2018, 1, 1).toordinal(), a Monday
FirstStartDate == 736695

StartDates == FirstStartDate..(FirstStartDate + StartDateSpan - 1)

CalendarHeaders == <<"Week", "Tuesday", "sunday", "Topic">>
WeekNumberTexts == {"1", "3", "6"}
CellValues == {None, [chars |-> <<"a", "|", "b">>]}

\* A row as convert_xlsx_to_dict gives it: every header with its cell
WeekData(week_text, cells) ==
    [j \in 1..Len(CalendarHeaders) |->
        <<CalendarHeaders[j],
          IF j = 1 THEN [chars |-> <<week_text>>] ELSE cells[j - 1]>>]

CalendarDataDicts ==
    UNION { { d \in [1..n -> WeekNumberTexts
                              \X [1..(Len(CalendarHeaders) - 1) -> CellValues]] :
                \A i, j \in 1..n : d[i][1] = d[j][1] => i = j }
            : n \in 0..MaxWeekRows }

data_dict_of(d) ==
    [i \in 1..Len(d) |-> <<d[i][1], WeekData(d[i][1], d[i][2])>>]

\* date.weekday(): Monday is 0
weekday_of(ordinal) == (ordinal + 6) % 7

\* calendar.day_name, lower-cased, with its place
day_name == <<"monday", "tuesday", "wednesday", "thursday", "friday",
              "saturday", "sunday">>

str_lower_header(header) ==
    IF header = "Week" THEN "week"
    ELSE IF header = "Tuesday" THEN "tuesday"
    ELSE IF header = "Topic" THEN "topic"
    ELSE header

in_weekdays_lookup_dict(name) == \E n \in 1..Len(day_name) : day_name[n] = name
weekdays_lookup_dict(name) ==
    (CHOOSE n \in 1..Len(day_name) : day_name[n] = name) - 1

\* int(week_number)
int(text) == CHOOSE n \in 0..9 : ToString(n) = text

\* The year, month and day of an ordinal
days_before_month ==
    <<0, 31, 59, 90, 120, 151, 181, 212, 243, 273, 304, 334, 365>>

ord2ymd(ordinal) ==
    LET n0 == ordinal - 1
        n400 == n0 \div 146097
        r400 == n0 % 146097
        n100 == r400 \div 36524
        r100 == r400 % 36524
        n4 == r100 \div 1461
        r4 == r100 % 1461
        n1 == r4 \div 365
        n == r4 % 365
        year == n400 * 400 + 1 + n100 * 100 + n4 * 4 + n1
        leapyear == n1 = 3 /\ (n4 # 24 \/ n100 = 3)
        before(mo) ==
            days_before_month[mo] + (IF mo > 2 /\ leapyear THEN 1 ELSE 0)
        guess == (n + 50) \div 32
        month == IF before(guess) > n THEN guess - 1 ELSE guess
    IN  IF n1 = 4 \/ n100 = 4
        THEN [year |-> year - 1, month |-> 12, day |-> 31]
        ELSE [year |-> year, month |-> month, day |-> n - before(month) + 1]

month_abbr == <<"JAN", "FEB", "MAR", "APR", "MAY", "JUN", "JUL", "AUG",
                "SEP", "OCT", "NOV", "DEC">>

\* date.strftime('%d%b%Y').upper()
strftime(ordinal) ==
    LET ymd == ord2ymd(ordinal)
    IN  (IF ymd.day < 10 THEN "0" ELSE "") \o ToString(ymd.day)
            \o month_abbr[ymd.month] \o ToString(ymd.year)

\* str.split(item_delimiter) on a text of characters
RECURSIVE split(_, _)
split(chars, item_delimiter) ==
    IF chars = <<>> THEN <<"">>
    ELSE LET rest == split(Tail(chars), item_delimiter)
         IN  IF Head(chars) = item_delimiter THEN <<"">> \o rest
             ELSE <<Head(chars) \o Head(rest)>> \o Tail(rest)

\* "start_date_adjusted = start_date - timedelta(days=start_date.weekday())"
start_date_unadjusted(start_date) == start_date
start_date_adjusted(start_date) == start_date - weekday_of(start_date)

\* The body of "for weekday in week_data", from its n-th column on
RECURSIVE week_entries(_, _, _, _)
week_entries(args, week_number, week_data, n) ==
    IF n = 0 THEN <<>>
    ELSE
        LET sofar == week_entries(args, week_number, week_data, n - 1)
            weekday == week_data[n][1]
            cell == week_data[n][2]
        IN  IF weekday = args.relative_week_number_column \/ cell = None
            THEN sofar
            ELSE IF in_weekdays_lookup_dict(str_lower_header(weekday))
            THEN ItemsSet(sofar, weekday,
                    [Date |-> strftime(
                        start_date_adjusted(args.start_date)
                            + 7 * (week_number - 1)
                            + weekdays_lookup_dict(str_lower_header(weekday))),
                     Activities |-> split(cell.chars, args.item_delimiter)])
            ELSE ItemsSet(sofar, weekday,
                    [items |-> split(cell.chars, args.item_delimiter)])

\* The loop "for week_number, week_data in data_dict.items()", n turns of it
RECURSIVE calendar_dict_of(_, _)
calendar_dict_of(args, n) ==
    IF n = 0 THEN <<>>
    ELSE LET week_number == int(args.data_dict[n][1])
             week_data == args.data_dict[n][2]
         IN  ItemsSet(calendar_dict_of(args, n - 1), week_number,
                      week_entries(args, week_number, week_data,
                                   Len(week_data)))

\* yaml.dump of the calendar, line by line
RECURSIVE dash_lines(_, _)
dash_lines(indent, items) ==
    IF items = <<>> THEN <<>>
    ELSE <<indent \o "- " \o Head(items)>> \o dash_lines(indent, Tail(items))

entry_lines(weekday, entry) ==
    IF "Date" \in DOMAIN entry
    THEN <<"  " \o weekday \o ":", "    Date: " \o entry.Date,
           "    Activities:">> \o dash_lines("    ", entry.Activities)
    ELSE <<"  " \o weekday \o ":">> \o dash_lines("  ", entry.items)

RECURSIVE week_lines(_)
week_lines(week_map) ==
    IF week_map = <<>> THEN <<>>
    ELSE entry_lines(Head(week_map)[1], Head(week_map)[2])
            \o week_lines(Tail(week_map))

RECURSIVE yaml_dump(_)
yaml_dump(calendar_dict) ==
    IF calendar_dict = <<>> THEN <<>>
    ELSE (IF Head(calendar_dict)[2] = <<>>
          THEN <<ToString(Head(calendar_dict)[1]) \o ": {}">>
          ELSE <<ToString(Head(calendar_dict)[1]) \o ":">>
                 \o week_lines(Head(calendar_dict)[2]))
            \o yaml_dump(Tail(calendar_dict))

convert_xlsx_to_yaml_calendar(args) ==
    LET calendar_dict == calendar_dict_of(args, Len(args.data_dict))
    IN  IF calendar_dict = <<>> THEN <<"{}">> ELSE yaml_dump(calendar_dict)

convert_xlsx_to_yaml_calendar_call ==
    /\ call_pc = "idle"
    /\ \E start_date \in StartDates, d \in CalendarDataDicts :
        call_args' = [data_dict |-> data_dict_of(d),
                      start_date |-> start_date,
                      item_delimiter |-> "|",
                      relative_week_number_column |-> CalendarHeaders[1]]
    /\ call_pc' = "run"
    /\ call_fn' = "convert_xlsx_to_yaml_calendar"
    /\ UNCHANGED <<call_locals, call_log, call_return>>
    /\ OnlyCall

convert_xlsx_to_yaml_calendar_return ==
    /\ call_pc = "run"
    /\ call_fn = "convert_xlsx_to_yaml_calendar"
    /\ call_pc' = "done"
    /\ call_locals' =
        [calendar_dict |-> calendar_dict_of(call_args,
                                            Len(call_args.data_dict))]
    /\ call_return' = convert_xlsx_to_yaml_calendar(call_args)
    /\ UNCHANGED <<call_fn, call_args, call_log>>
    /\ OnlyCall

----------------------------------------------------------------------------
(* Data conversions: convert_csv_to_dict and convert_xlsx_to_dict.  The    *)
(* source is its header row and its data rows, each row a dict on the      *)
(* headers; return_value is a dict in insertion order.                     *)

MaxDictRows == 2

HeaderRow == <<"id", "name">>
KeyColumns == {"id", "name", "email"}
DictCellTexts == {"x", "y"}

DictRows ==
    UNION { [1..n -> [{"id", "name"} -> DictCellTexts]] : n \in 0..MaxDictRows }

InHeaderRow(key) == \E j \in 1..Len(HeaderRow) : HeaderRow[j] = key

\* "if key is None: key = csv_file_reader.fieldnames[0]"
csv_key_of(key) == IF key = None THEN HeaderRow[1] ELSE key.s

\* "for row in csv_file_reader: return_value[row[key]] = row", n turns of
\* it; row[key] raises KeyError when the row has no such column
RECURSIVE csv_dict_loop(_, _, _)
csv_dict_loop(rows, key, n) ==
    IF n = 0 THEN [raised |-> "none", return_value |-> <<>>]
    ELSE LET sofar == csv_dict_loop(rows, key, n - 1)
         IN  IF sofar.raised # "none" THEN sofar
             ELSE IF key \notin DOMAIN rows[n]
             THEN [sofar EXCEPT !.raised = "KeyError"]
             ELSE [sofar EXCEPT !.return_value =
                        ItemsSet(@, rows[n][key], rows[n])]

convert_csv_to_dict(args) ==
    csv_dict_loop(args.rows, csv_key_of(args.key), Len(args.rows))

\* "key_column_index = xlsx_worksheet_headers.index(key)" raises ValueError
\* when the key is no header; then one entry per row
RECURSIVE xlsx_dict_loop(_, _, _)
xlsx_dict_loop(rows, key, n) ==
    IF n = 0 THEN <<>>
    ELSE ItemsSet(xlsx_dict_loop(rows, key, n - 1), rows[n][key], rows[n])

convert_xlsx_to_dict(args) ==
    IF ~InHeaderRow(args.key.s)
    THEN [raised |-> "ValueError", return_value |-> <<>>]
    ELSE [raised |-> "none",
          return_value |-> xlsx_dict_loop(args.rows, args.key.s,
                                          Len(args.rows))]

convert_to_dict_call ==
    /\ call_pc = "idle"
    /\ \/ \E rows \in DictRows, key \in {None} \cup { PyStr(k) : k \in KeyColumns } :
            /\ call_fn' = "convert_csv_to_dict"
            /\ call_args' = [rows |-> rows, key |-> key]
       \/ \E rows \in DictRows, key \in { PyStr(k) : k \in KeyColumns } :
            /\ call_fn' = "convert_xlsx_to_dict"
            /\ call_args' = [rows |-> rows, key |-> key]
    /\ call_pc' = "run"
    /\ UNCHANGED <<call_locals, call_log, call_return>>
    /\ OnlyCall

\* The call ends: it returns the mapping, or it raises and returns nothing
convert_to_dict_end(result) ==
    /\ call_pc' = IF result.raised = "none" THEN "done" ELSE "raised"
    /\ call_return' = IF result.raised = "none" THEN result.return_value
                      ELSE None
    /\ call_log' = IF result.raised = "none" THEN call_log
                   ELSE Append(call_log, result.raised)
    /\ UNCHANGED <<call_fn, call_args, call_locals>>
    /\ OnlyCall

convert_csv_to_dict_return ==
    /\ call_pc = "run"
    /\ call_fn = "convert_csv_to_dict"
    /\ convert_to_dict_end(convert_csv_to_dict(call_args))

convert_xlsx_to_dict_return ==
    /\ call_pc = "run"
    /\ call_fn = "convert_xlsx_to_dict"
    /\ convert_to_dict_end(convert_xlsx_to_dict(call_args))

----------------------------------------------------------------------------
(* Slack workspace client: the single channel methods                      *)
(* invite_to_{public,private}_channel, set_{public,private}_channel_purpose,*)
(* set_{public,private}_channel_topic and get_{public,private}_channel_info *)

LookupNames == ChannelNames \cup {"quiz"}

ChannelMethodName ==
    [public |-> [invite |-> "invite_to_public_channel",
                 purpose |-> "set_public_channel_purpose",
                 topic |-> "set_public_channel_topic",
                 info |-> "get_public_channel_info"],
     private |-> [invite |-> "invite_to_private_channel",
                  purpose |-> "set_private_channel_purpose",
                  topic |-> "set_private_channel_topic",
                  info |-> "get_private_channel_info"]]

ChannelMethodArgs ==
    { a \in [op : {"invite", "purpose", "topic", "info"},
             channel_name : LookupNames,
             user_name : InviteeNames \cup {""},
             channel_purpose : {"P"}, channel_topic : {"T"},
             public : BOOLEAN] :
        a.op = "invite" <=> a.user_name # "" }

InChannelMethod ==
    /\ slack_pc = "run"
    /\ slack_fn = ChannelMethodName[KindOf(slack_args.public)][slack_args.op]

\* The key of the look-up: "channel_name.lower()"
channel_lookup_key_as_given(channel_name) == channel_name
channel_lookup_key(channel_name) == lower(channel_name)

channel_method_call(args) ==
    /\ slack_pc = "idle"
    /\ SlackEnter(ChannelMethodName[KindOf(args.public)][args.op], args)

\* self.{public,private}_channels_ids[channel_name.lower()]: the listing
\* request, then the lookup (KeyError for a name the listing lacks)
channel_method_id_lookup ==
    /\ InChannelMethod
    /\ "channel" \notin DOMAIN slack_locals
    /\ LET kind == KindOf(slack_args.public)
           ids == channels_ids(workspace, kind)
           key == channel_lookup_key(slack_args.channel_name)
       IN  \E ok \in BOOLEAN :
            /\ slack_log' = Append(slack_log,
                    SlackRequest(ChannelMethod[kind].list, EmptyDict, ok))
            /\ IF ok /\ key \in DOMAIN ids
               THEN /\ slack_locals' = DictSet(slack_locals, "channel",
                                               ids[key])
                    /\ UNCHANGED slack_pc
               ELSE /\ slack_pc' = pc_after_exception
                    /\ UNCHANGED slack_locals
    /\ UNCHANGED <<workspace, slack_fn, slack_args, slack_step, slack_return,
                   slack_start>>
    /\ OnlySlack

\* self.user_ids[user_name] of an invitation: the users.list request, then
\* the lookup (KeyError for a name that is no member)
channel_method_user_lookup ==
    /\ InChannelMethod
    /\ slack_args.op = "invite"
    /\ "channel" \in DOMAIN slack_locals
    /\ "user" \notin DOMAIN slack_locals
    /\ LET users == user_ids(workspace.members)
       IN  \E ok \in BOOLEAN :
            /\ slack_log' = Append(slack_log,
                    SlackRequest("users.list", EmptyDict, ok))
            /\ IF ok /\ slack_args.user_name \in DOMAIN users
               THEN /\ slack_locals' = DictSet(slack_locals, "user",
                                               users[slack_args.user_name])
                    /\ UNCHANGED slack_pc
               ELSE /\ slack_pc' = pc_after_exception
                    /\ UNCHANGED slack_locals
    /\ UNCHANGED <<workspace, slack_fn, slack_args, slack_step, slack_return,
                   slack_start>>
    /\ OnlySlack

\* requests.post(...).json(), once the ids of the body are looked up
channel_method_request ==
    /\ InChannelMethod
    /\ "channel" \in DOMAIN slack_locals
    /\ slack_args.op = "invite" => "user" \in DOMAIN slack_locals
    /\ LET op == slack_args.op
           kind == KindOf(slack_args.public)
           json == channel_json(slack_args, Step(op, slack_args.user_name),
                                slack_locals)
           served == ServerChannelRequest(workspace, kind, op, json)
       IN  \E ok \in BOOLEAN, reached \in BOOLEAN :
            /\ ok => reached
            /\ slack_log' = Append(slack_log,
                    SlackRequest(ChannelMethod[kind][op], json, reached))
            /\ workspace' = IF reached THEN served ELSE workspace
            /\ IF ok
               THEN /\ slack_pc' = "done"
                    /\ slack_return' = [channel |-> served.channels[kind]]
               ELSE /\ slack_pc' = pc_after_exception
                    /\ UNCHANGED slack_return
    /\ UNCHANGED <<slack_fn, slack_args, slack_step, slack_locals,
                   slack_start>>
    /\ OnlySlack

----------------------------------------------------------------------------
(* The directory accessors: BlackboardCourse.gradebook_columns_primary_ids, *)
(* GitHubOrganization.org_team_ids and SlackAccount.user_ids,               *)
(* user_dm_channels, public_channels_ids and private_channels_ids, accessed *)
(* one after the other on one client while the server's directory changes   *)
(* between the accesses.  The paginated ones run the listing they are built *)
(* on.  An item's name is its place in its page and its id the item, so     *)
(* that two pages can hold the same name.                                   *)

MaxAccesses == 2

AccessorClient ==
    [gradebook_columns_primary_ids |-> "BlackboardCourse",
     org_team_ids |-> "GitHubOrganization",
     public_channels_ids |-> "SlackAccount",
     private_channels_ids |-> "SlackAccount",
     user_ids |-> "SlackAccount",
     user_dm_channels |-> "SlackAccount"]

\* The generator a paginated accessor iterates
ListingOf ==
    [gradebook_columns_primary_ids |-> "gradebook_columns",
     org_team_ids |-> "org_teams",
     public_channels_ids |-> "public_channels"]

\* The requests of the other accessors, in order
DirectoryRequests ==
    [user_ids |-> <<"users.list">>,
     user_dm_channels |-> <<"im.list", "users.list">>,
     private_channels_ids |-> <<"groups.list">>]

\* "{x['name']: x['id'] for x in ...}": a later item of a name replaces an
\* earlier one
name_to_id(items) ==
    [name \in { items[i].item : i \in 1..Len(items) } |->
        items[CHOOSE i \in 1..Len(items) :
                /\ items[i].item = name
                /\ \A j \in (i + 1)..Len(items) : items[j].item # name]]

\* What an access returns: the dict built from what it fetched; no accessor
\* looks at anything an earlier access obtained
accessor_value_cached(earlier, fetched) ==
    IF earlier = None THEN [dict |-> fetched] ELSE earlier
accessor_value(earlier, fetched) == [dict |-> fetched]

\* The server's directory, as the client in use sees it
ServerDirectory ==
    IF call_args.server = "site" THEN pg_site ELSE workspace

DirectoryWorkspaces ==
    { [ws EXCEPT !.channels["private"] = channel] :
        ws \in DmWorkspaces,
        channel \in {None, NewChannel("private", "lab")} }

\* The single cursor-style site without channels
NoPublicChannels ==
    [reads |-> "headers",
     pages |-> <<[cursor |-> Cursor(1),
                  body |-> CursorBodyOfPage(1, 1, 0, "no_metadata")]>>]

\* The items of a page after one is added or removed
ChangedItems(page, count) ==
    { [j \in 1..n |-> Item(page, j)] :
        n \in {count - 1, count + 1} \cap (0..MaxItems) }

\* A change of the directory between two accesses: an item comes or goes on
\* the last page of a listing; a member, a DM channel or the private channel
\* comes or goes in a workspace
ServerChanges(client, server, site, ws) ==
    IF server = "workspace"
    THEN ({ [ws EXCEPT !.members = members] :
                members \in {<<Member("u1")>>,
                             <<Member("u1"), Member("u2")>>} }
            \cup { [ws EXCEPT !.ims = ims] : ims \in {<<>>, <<Im("U1")>>} }
            \cup { [ws EXCEPT !.channels["private"] = channel] :
                    channel \in {None, NewChannel("private", "lab")} })
            \ {ws}
    ELSE IF client = "SlackAccount"
    THEN LET k == Len(site.pages)
         IN  { [site EXCEPT !.pages[k].body["channels"] = items] :
                items \in ChangedItems(k,
                            Len(site.pages[k].body["channels"])) }
    ELSE LET k == Len(site)
         IN  { [site EXCEPT ![k].body["results"] = items] :
                items \in ChangedItems(k, Len(site[k].body["results"])) }

\* The property is accessed: a paginated accessor starts its generator
accessor_call(fn) ==
    /\ call_pc = "idle"
    /\ AccessorClient[fn] = call_args.client
    /\ (fn \in DOMAIN ListingOf) = (call_args.server = "site")
    /\ Len(call_log) < MaxAccesses
    /\ call_pc' = "run"
    /\ call_fn' = fn
    /\ call_locals' = [at_call |-> ServerDirectory, requests |-> <<>>,
                       responses |-> <<>>]
    /\ IF fn \in DOMAIN ListingOf
       THEN /\ pg_pc' = "run"
            /\ pg_fn' = ListingOf[fn]
            /\ pg_next' = IF fn = "public_channels_ids" THEN PyStr("")
                          ELSE BaseUrl
            /\ pg_requests' = <<>>
            /\ pg_yielded' = <<>>
       ELSE UNCHANGED <<pg_pc, pg_fn, pg_next, pg_requests, pg_yielded>>
    /\ UNCHANGED <<pg_site, call_args, call_log, call_return>>
    /\ UNCHANGED <<gradeVars, batchVars, tokenVars, slackVars>>

\* The generator is exhausted: the dict comprehension is complete
accessor_listing_return ==
    /\ call_pc = "run"
    /\ call_fn \in DOMAIN ListingOf
    /\ pg_pc = "done"
    /\ call_return' = accessor_value(call_return, name_to_id(pg_yielded))
    /\ call_log' = Append(call_log,
            [fn |-> call_fn, server |-> call_locals.at_call,
             first |-> IF call_fn = "public_channels_ids"
                       THEN pg_requests[1].request.headers["cursor"]
                       ELSE pg_requests[1],
             value |-> call_return'])
    /\ call_pc' = "idle"
    /\ pg_pc' = "idle"
    /\ UNCHANGED <<call_fn, call_args, call_locals>>
    /\ UNCHANGED <<pg_fn, pg_site, pg_next, pg_requests, pg_yielded>>
    /\ UNCHANGED <<gradeVars, batchVars, tokenVars, slackVars>>

\* requests.post of users.list, im.list or groups.list
accessor_directory_request ==
    /\ call_pc = "run"
    /\ call_fn \in DOMAIN DirectoryRequests
    /\ Len(call_locals.requests) < Len(DirectoryRequests[call_fn])
    /\ call_locals' =
        [call_locals EXCEPT
            !.requests = Append(@, DirectoryRequests[call_fn][Len(@) + 1]),
            !.responses = Append(@, workspace)]
    /\ UNCHANGED <<call_pc, call_fn, call_args, call_log, call_return>>
    /\ OnlyCall

\* The loops over the responses, and the return
accessor_directory_return ==
    /\ call_pc = "run"
    /\ call_fn \in DOMAIN DirectoryRequests
    /\ Len(call_locals.requests) = Len(DirectoryRequests[call_fn])
    /\ LET responses == call_locals.responses
           fetched ==
            CASE call_fn = "user_ids" -> user_ids(responses[1].members)
              [] call_fn = "user_dm_channels" ->
                    user_dm_channels(im_channels(responses[1].ims),
                                     user_ids(responses[2].members))
              [] OTHER -> channels_ids(responses[1], "private")
       IN  call_return' = accessor_value(call_return, fetched)
    /\ call_log' = Append(call_log,
            [fn |-> call_fn, server |-> call_locals.at_call,
             first |-> call_locals.requests[1],
             value |-> call_return'])
    /\ call_pc' = "idle"
    /\ UNCHANGED <<call_fn, call_args, call_locals>>
    /\ OnlyCall

\* Between two accesses the server's directory changes
server_change ==
    /\ call_pc = "idle"
    /\ call_log # <<>>
    /\ Len(call_log) < MaxAccesses
    /\ Last(call_log).server = ServerDirectory
    /\ \E changed \in ServerChanges(call_args.client, call_args.server,
                                    pg_site, workspace) :
        IF call_args.server = "site"
        THEN pg_site' = changed /\ UNCHANGED workspace
        ELSE workspace' = changed /\ UNCHANGED pg_site
    /\ UNCHANGED <<pg_pc, pg_fn, pg_next, pg_requests, pg_yielded>>
    /\ UNCHANGED <<slack_pc, slack_fn, slack_args, slack_step, slack_locals,
                   slack_return, slack_log, slack_start>>
    /\ UNCHANGED <<gradeVars, batchVars, tokenVars, callVars>>

----------------------------------------------------------------------------
(* Paginated gradebook listings with their Authorization header.  The      *)
(* listing's accesses of api_token are those of MainCaller; call_locals    *)
(* holds request_get_options of gradebook_columns and call_log the page    *)
(* requests, each with the clock at which its token was returned by        *)
(* api_token, the clock at which it was sent and the validity its token    *)
(* had left then.                                                           *)

\* 'Bearer ' + self.api_token
bearer(token) == [bearer |-> token]

get_request(url, authorization, obtained_at) ==
    [url |-> url,
     headers |-> [key \in {"Authorization"} |-> authorization],
     obtained_at |-> obtained_at,
     sent_at |-> now,
     token_left |-> time_until_api_token_expiration]

\* The listing is at an evaluation of self.api_token: gradebook_columns
\* when it builds request_get_options, the two hand-written loops at every
\* turn of "while api_request_url"
AtApiToken ==
    \/ pg_pc = "options"
    \/ /\ pg_pc = "run"
       /\ pg_fn \in {"gradebook_schemas", "get_grades_in_column"}
       /\ Truthy(pg_next)

AuthFrame ==
    UNCHANGED <<gradeVars, batchVars, slackVars, call_pc, call_fn, call_args,
                call_return>>

\* The listing is called: gradebook_columns runs up to the api_token of its
\* request_get_options; the other two are generator functions whose body
\* waits for the first pull
auth_listing_call(fn) ==
    /\ pg_pc = "idle"
    /\ pg_pc' = IF fn = "gradebook_columns" THEN "options" ELSE "run"
    /\ pg_fn' = fn
    /\ pg_next' = BaseUrl
    /\ pg_yielded' = <<>>
    /\ call_locals' = EmptyDict
    /\ call_log' = <<>>
    /\ UNCHANGED <<pg_site, pg_requests, tokenVars>>
    /\ AuthFrame

\* gradebook_columns, lines 158-163 and 175: request_get_options is built
\* with the token just returned, and the generator is returned unstarted
auth_columns_options ==
    /\ pg_pc = "options"
    /\ tk_pc[MainCaller] = "done"
    /\ call_locals' =
            [key \in {"request_get_options"} |->
                [headers |-> bearer(tk_ret[MainCaller]),
                 obtained_at |-> now]]
    /\ tk_pc' = SetTk(tk_pc, MainCaller, "idle")
    /\ pg_pc' = "run"
    /\ UNCHANGED <<pg_fn, pg_site, pg_next, pg_requests, pg_yielded, call_log,
                   now, api_token, api_token_expiration_datetime,
                   tokens_issued, tk_depth, tk_response, tk_ret, tk_obs>>
    /\ AuthFrame

\* handle_api_paging, lines 131-137: wrapped_fcn(api_request_url, **kwargs)
\* with the kwargs of the call, the page's results, the next URL
auth_fetch_with_kwargs ==
    /\ pg_pc = "run"
    /\ pg_fn = "gradebook_columns"
    /\ Truthy(pg_next)
    /\ LET body == ServerBody(pg_site, pg_next)
           kwargs == call_locals["request_get_options"]
       IN  /\ call_log' = Append(call_log,
                    get_request(pg_next, kwargs.headers, kwargs.obtained_at))
           /\ pg_yielded' = pg_yielded \o page_results(pg_fn, body)
           /\ pg_next' = next_page_url(body)
    /\ UNCHANGED <<pg_pc, pg_fn, pg_site, pg_requests, call_locals, tokenVars>>
    /\ AuthFrame

\* gradebook_schemas, lines 208-218, and get_grades_in_column, lines
\* 414-424: requests.get with the token that self.api_token just returned,
\* the page's results, the next URL
auth_fetch_with_token ==
    /\ pg_pc = "run"
    /\ pg_fn \in {"gradebook_schemas", "get_grades_in_column"}
    /\ Truthy(pg_next)
    /\ tk_pc[MainCaller] = "done"
    /\ LET body == ServerBody(pg_site, pg_next) IN
        /\ call_log' = Append(call_log,
                get_request(pg_next, bearer(tk_ret[MainCaller]), now))
        /\ pg_yielded' = pg_yielded \o page_results(pg_fn, body)
        /\ pg_next' = next_page_url(body)
    /\ tk_pc' = SetTk(tk_pc, MainCaller, "idle")
    /\ UNCHANGED <<pg_pc, pg_fn, pg_site, pg_requests, call_locals,
                   now, api_token, api_token_expiration_datetime,
                   tokens_issued, tk_depth, tk_response, tk_ret, tk_obs>>
    /\ AuthFrame

\* The while condition fails: the generator is exhausted
auth_listing_stop ==
    /\ pg_pc = "run"
    /\ ~Truthy(pg_next)
    /\ pg_pc' = "done"
    /\ UNCHANGED <<pg_fn, pg_site, pg_next, pg_requests, pg_yielded,
                   call_locals, call_log, tokenVars>>
    /\ AuthFrame

\* ======================== SPECIFICATIONS ================================
----------------------------------------------------------------------------
(* Specifications of the gradebook writes                                  *)

GradeFramesInit(mainPc) ==
    /\ sg_pc = [c \in Callers |-> IF c = MainCaller THEN mainPc ELSE "off"]
    /\ sg_args = [c \in Callers |-> NoArgs]
    /\ current_grade = [c \in Callers |-> EmptyDict]
    /\ sg_return = [c \in Callers |-> None]
    /\ sg_requests = [c \in Callers |-> <<>>]
    /\ cell_at_call = [c \in Callers |-> EmptyDict]

BatchInit(pc) ==
    /\ batch_pc = pc
    /\ batch_args = NoBatchArgs
    /\ batch_index = 1
    /\ batch_return = <<>>
    /\ batch_calls = <<>>
    /\ batch_start = gradebook

\* One caller, any sequence of set_grade calls, every cell ungraded at first
GradesInit ==
    /\ gradebook \in { b \in [UserNames -> UNION { UngradedRecords(u) : u \in UserNames }] :
                         \A u \in UserNames : b[u] \in UngradedRecords(u) }
    /\ GradeFramesInit("idle")
    /\ BatchInit("off")
    /\ TokenInit("off")
    /\ PagingOff
    /\ SlackOff
    /\ CallOff

GradesNext ==
    \/ \E args \in SetGradeArgs : set_grade_call(MainCaller, args)
    \/ set_grade_get(MainCaller)
    \/ set_grade_patch(MainCaller)

SpecGrades == GradesInit /\ [][GradesNext]_vars

\* One set_grades_in_column call on a gradebook with graded and ungraded cells
GradeBatchInit ==
    /\ gradebook \in { b \in [UserNames -> UNION { UngradedRecords(u) \cup {GradedRecord(u)} : u \in UserNames }] :
                         \A u \in UserNames : b[u] \in UngradedRecords(u) \cup {GradedRecord(u)} }
    /\ GradeFramesInit("idle")
    /\ BatchInit("idle")
    /\ TokenInit("off")
    /\ PagingOff
    /\ SlackOff
    /\ CallOff

GradeBatchNext ==
    \/ \E args \in BatchArgs : set_grades_in_column_call(args)
    \/ set_grades_in_column_next
    \/ set_grades_in_column_append
    \/ set_grade_get(MainCaller)
    \/ set_grade_patch(MainCaller)

SpecGradeBatch == GradeBatchInit /\ [][GradeBatchNext]_vars

----------------------------------------------------------------------------
(* Specification of the token cache: one caller reads api_token again and  *)
(* again while time passes                                                 *)

GradesOff ==
    /\ gradebook = [u \in UserNames |-> [k \in {"userId"} |-> PyStr(u)]]
    /\ GradeFramesInit("off")
    /\ BatchInit("off")

TokenSingleInit ==
    /\ TokenInit("idle")
    /\ GradesOff
    /\ PagingOff
    /\ SlackOff
    /\ CallOff

TokenSingleNext ==
    \/ api_token_step(MainCaller)
    \/ Tick

SpecToken == TokenSingleInit /\ [][TokenSingleNext]_vars

----------------------------------------------------------------------------
(* Specification of the body-cursor listings: one listing call on a server *)
(* that holds a chain of 1..MaxPages pages                                 *)

OthersOffForPaging ==
    /\ GradesOff
    /\ TokenInit("off")
    /\ SlackOff
    /\ CallOff

BodyPagingInit ==
    /\ pg_pc = "idle"
    /\ pg_fn = "none"
    /\ pg_site \in BodySites
    /\ pg_next = None
    /\ pg_requests = <<>>
    /\ pg_yielded = <<>>
    /\ OthersOffForPaging

BodyPagingNext ==
    \/ \E fn \in BodyPagingFns : body_paging_call(fn)
    \/ body_paging_fetch
    \/ body_paging_stop

SpecBodyPaging == BodyPagingInit /\ [][BodyPagingNext]_vars

----------------------------------------------------------------------------
(* Specification of the Link-header listings                               *)

LinkPagingInit ==
    /\ pg_pc = "idle"
    /\ pg_fn = "none"
    /\ pg_site \in LinkSites
    /\ pg_next = None
    /\ pg_requests = <<>>
    /\ pg_yielded = <<>>
    /\ OthersOffForPaging

LinkPagingNext ==
    \/ \E fn \in LinkPagingFns : link_paging_call(fn)
    \/ link_paging_fetch
    \/ link_paging_stop

SpecLinkPaging == LinkPagingInit /\ [][LinkPagingNext]_vars

----------------------------------------------------------------------------
(* Specification of the cursor listing                                     *)

CursorPagingInit ==
    /\ pg_pc = "idle"
    /\ pg_fn = "none"
    /\ pg_site \in CursorSites
    /\ pg_next = None
    /\ pg_requests = <<>>
    /\ pg_yielded = <<>>
    /\ OthersOffForPaging

CursorPagingNext ==
    \/ public_channels_call
    \/ public_channels_turn

SpecCursorPaging == CursorPagingInit /\ [][CursorPagingNext]_vars

----------------------------------------------------------------------------
(* Specification of direct_message_by_username: one call                   *)

OthersOffForSlack ==
    /\ GradesOff
    /\ TokenInit("off")
    /\ PagingOff
    /\ CallOff

DmInit ==
    /\ SlackIdle(DmWorkspaces)
    /\ OthersOffForSlack

DmNext ==
    \/ \E args \in DmArgs : direct_message_by_username_call(args)
    \/ user_dm_channels_im_list
    \/ user_dm_channels_users_list
    \/ direct_message_by_username_post
    \/ direct_message_by_username_return

SpecDm == DmInit /\ [][DmNext]_vars

----------------------------------------------------------------------------
(* Specification of the two batches: one set_grades_in_column call, or one *)
(* create_and_setup_channel call                                           *)

ChannelSetupInit ==
    /\ SlackIdle(ChannelWorkspaces)
    /\ OthersOffForSlack

ChannelSetupNext ==
    \/ \E args \in ChannelArgs : create_and_setup_channel_call(args)
    \/ create_and_setup_channel_sleep
    \/ channel_id_lookup
    \/ channel_user_lookup
    \/ channel_request

BatchesInit == GradeBatchInit \/ ChannelSetupInit

BatchesNext == GradeBatchNext \/ ChannelSetupNext

SpecBatches == BatchesInit /\ [][BatchesNext]_vars

----------------------------------------------------------------------------
(* Specification of create_and_setup_channel: one call                     *)

SpecChannelSetup == ChannelSetupInit /\ [][ChannelSetupNext]_vars

----------------------------------------------------------------------------
(* Specification of remove_single_file_pr_deletions: one call              *)

OthersOffForCall ==
    /\ GradesOff
    /\ TokenInit("off")
    /\ PagingOff
    /\ SlackOff

RemoveDeletionsInit ==
    /\ CallIdle
    /\ OthersOffForCall

RemoveDeletionsNext ==
    \/ remove_single_file_pr_deletions_call
    \/ remove_deletions_get_pr_details
    \/ remove_deletions_get_pr_files
    \/ remove_deletions_get_pr_file
    \/ remove_deletions_get_base_file

SpecRemoveDeletions == RemoveDeletionsInit /\ [][RemoveDeletionsNext]_vars

----------------------------------------------------------------------------
(* Specification of flatten_dict: one call                                 *)

FlattenInit ==
    /\ CallIdle
    /\ OthersOffForCall

FlattenNext ==
    \/ \E args \in FlattenArgs : flatten_dict_call(args)
    \/ flatten_dict_return

SpecFlatten == FlattenInit /\ [][FlattenNext]_vars

----------------------------------------------------------------------------
(* Specification of convert_csv_to_multimap: one call                      *)

MultimapInit ==
    /\ CallIdle
    /\ OthersOffForCall

MultimapNext ==
    \/ \E args \in MultimapArgs : convert_csv_to_multimap_call(args)
    \/ convert_csv_to_multimap_return

SpecMultimap == MultimapInit /\ [][MultimapNext]_vars

----------------------------------------------------------------------------
(* Specification of mail_merge_from_dict: one call                         *)

MailMergeInit ==
    /\ CallIdle
    /\ OthersOffForCall

MailMergeNext ==
    \/ mail_merge_from_dict_call
    \/ mail_merge_read_template
    \/ mail_merge_render
    \/ mail_merge_from_dict_return

SpecMailMerge == MailMergeInit /\ [][MailMergeNext]_vars

----------------------------------------------------------------------------
(* Specification of convert_xlsx_to_yaml_calendar: one call                *)

CalendarInit ==
    /\ CallIdle
    /\ OthersOffForCall

CalendarNext ==
    \/ convert_xlsx_to_yaml_calendar_call
    \/ convert_xlsx_to_yaml_calendar_return

SpecCalendar == CalendarInit /\ [][CalendarNext]_vars

----------------------------------------------------------------------------
(* Specification of convert_csv_to_dict and convert_xlsx_to_dict: one call *)

KeyedRecordsInit ==
    /\ CallIdle
    /\ OthersOffForCall

KeyedRecordsNext ==
    \/ convert_to_dict_call
    \/ convert_csv_to_dict_return
    \/ convert_xlsx_to_dict_return

SpecKeyedRecords == KeyedRecordsInit /\ [][KeyedRecordsNext]_vars

----------------------------------------------------------------------------
(* Specification of the single channel methods: one call                   *)

ChannelMethodInit ==
    /\ SlackIdle(ChannelWorkspaces)
    /\ OthersOffForSlack

ChannelMethodNext ==
    \/ \E args \in ChannelMethodArgs : channel_method_call(args)
    \/ channel_method_id_lookup
    \/ channel_method_user_lookup
    \/ channel_method_request

SpecChannelMethod == ChannelMethodInit /\ [][ChannelMethodNext]_vars

----------------------------------------------------------------------------
(* Specification of the directory accessors: accesses on one client, with  *)
(* changes of the server's directory between them                          *)

AccessorsInit ==
    /\ GradesOff
    /\ TokenInit("off")
    /\ call_pc = "idle"
    /\ call_fn = "none"
    /\ call_locals = EmptyDict
    /\ call_log = <<>>
    /\ call_return = None
    /\ pg_pc = "idle"
    /\ pg_fn = "none"
    /\ pg_next = None
    /\ pg_requests = <<>>
    /\ pg_yielded = <<>>
    /\ slack_pc = "off"
    /\ slack_fn = "none"
    /\ slack_args = EmptyDict
    /\ slack_step = 1
    /\ slack_locals = EmptyDict
    /\ slack_return = EmptyDict
    /\ slack_log = <<>>
    /\ \/ /\ call_args = [client |-> "BlackboardCourse", server |-> "site"]
          /\ pg_site \in BodySites
          /\ workspace \in {w \in DirectoryWorkspaces :
                                w.members = <<Member("u1")>> /\ w.ims = <<>>
                                    /\ w.channels = NoChannels}
       \/ /\ call_args = [client |-> "GitHubOrganization", server |-> "site"]
          /\ pg_site \in LinkSites
          /\ workspace \in {w \in DirectoryWorkspaces :
                                w.members = <<Member("u1")>> /\ w.ims = <<>>
                                    /\ w.channels = NoChannels}
       \/ /\ call_args = [client |-> "SlackAccount", server |-> "site"]
          /\ pg_site \in CursorSites
          /\ workspace \in {w \in DirectoryWorkspaces :
                                w.members = <<Member("u1")>> /\ w.ims = <<>>
                                    /\ w.channels = NoChannels}
       \/ /\ call_args = [client |-> "SlackAccount", server |-> "workspace"]
          /\ pg_site = NoPublicChannels
          /\ workspace \in DirectoryWorkspaces
    /\ slack_start = workspace

AccessorsNext ==
    \/ \E fn \in DOMAIN AccessorClient : accessor_call(fn)
    \/ body_paging_fetch
    \/ body_paging_stop
    \/ link_paging_fetch
    \/ link_paging_stop
    \/ public_channels_turn
    \/ accessor_listing_return
    \/ accessor_directory_request
    \/ accessor_directory_return
    \/ server_change

SpecAccessors == AccessorsInit /\ [][AccessorsNext]_vars

----------------------------------------------------------------------------
(* Specification of concurrent set_grade calls: two callers on one cell,   *)
(* their requests interleaved in any order                                 *)

GradeRaceInit ==
    /\ gradebook \in { b \in [UserNames -> UNION { UngradedRecords(u) : u \in UserNames }] :
                         \A u \in UserNames : b[u] \in UngradedRecords(u) }
    /\ sg_pc = [c \in Callers |-> "idle"]
    /\ sg_args = [c \in Callers |-> NoArgs]
    /\ current_grade = [c \in Callers |-> EmptyDict]
    /\ sg_return = [c \in Callers |-> None]
    /\ sg_requests = [c \in Callers |-> <<>>]
    /\ cell_at_call = [c \in Callers |-> EmptyDict]
    /\ BatchInit("off")
    /\ TokenInit("off")
    /\ PagingOff
    /\ SlackOff
    /\ CallOff

GradeRaceNext ==
    \E c \in Callers :
        \/ \E args \in RaceArgs : set_grade_call(c, args)
        \/ set_grade_get(c)
        \/ set_grade_patch(c)

SpecGradeRace == GradeRaceInit /\ [][GradeRaceNext]_vars

----------------------------------------------------------------------------
(* Specification of concurrent api_token accesses: two callers on one      *)
(* client instance, their statements interleaved in any order; the clock   *)
(* leaves room for one sleep(1)                                            *)

TokenRaceInit ==
    /\ now = MaxTime - 1
    /\ api_token = None
    /\ api_token_expiration_datetime = None
    /\ tokens_issued = 0
    /\ tk_pc = [c \in Callers |-> "idle"]
    /\ tk_depth = [c \in Callers |-> 0]
    /\ tk_response = [c \in Callers |-> NoResponse]
    /\ tk_ret = [c \in Callers |-> None]
    /\ tk_obs = [c \in Callers |-> NoObs]
    /\ GradesOff
    /\ PagingOff
    /\ SlackOff
    /\ CallOff

\* Each caller accesses the property once; time passes in sleep(1) alone
TokenRaceNext ==
    \/ \E c \in Callers :
        \/ tk_pc[c] = "idle" /\ api_token_access(c)
        \/ api_token_l85(c)
        \/ api_token_l91(c)
        \/ api_token_l99(c)
        \/ api_token_l100(c)
        \/ api_token_l105(c)
        \/ api_token_l109(c)
        \/ api_token_l110(c)
        \/ api_token_l111_call(c)
        \/ api_token_l111_assign(c)
        \/ api_token_l113(c)

SpecTokenRace == TokenRaceInit /\ [][TokenRaceNext]_vars

----------------------------------------------------------------------------
(* Specification of the gradebook listings with their tokens: one listing  *)
(* at a time; time passes in sleep(1) and while the consumer has not       *)
(* pulled the next page                                                    *)

AuthPagingInit ==
    /\ TokenInit("idle")
    /\ pg_pc = "idle"
    /\ pg_fn = "none"
    /\ pg_site \in BodySites
    /\ pg_next = None
    /\ pg_requests = <<>>
    /\ pg_yielded = <<>>
    /\ GradesOff
    /\ SlackOff
    /\ CallOff

AuthPagingNext ==
    \/ \E fn \in BodyPagingFns : auth_listing_call(fn)
    \/ AtApiToken /\ tk_pc[MainCaller] = "idle" /\ api_token_access(MainCaller)
    \/ tk_pc[MainCaller] # "idle" /\ api_token_step(MainCaller)
    \/ auth_columns_options
    \/ auth_fetch_with_kwargs
    \/ auth_fetch_with_token
    \/ auth_listing_stop
    \/ pg_pc = "run" /\ tk_pc[MainCaller] = "idle" /\ Tick

SpecAuthPaging == AuthPagingInit /\ [][AuthPagingNext]_vars

\* ========================== PROPERTIES =================================
----------------------------------------------------------------------------
(* Properties of set_grade and set_grades_in_column                        *)

Methods(reqs) == [i \in 1..Len(reqs) |-> reqs[i].method]
ObservedScore(c) == DictGet(current_grade[c], "score", None)
StoredScoreAtCall(c) == DictGet(cell_at_call[c], "score", None)

\* C1: a set_grade(overwrite=False) call of a single caller issues a GET
\* first and a PATCH only after its GET observed a null or absent score; a
\* call that finds a non-null score stored issues no PATCH, returns the stored
\* record unchanged and leaves the stored record as it was.
C1_OverwriteGuard ==
    \A c \in Callers :
        (sg_pc[c] \in {"patch", "done", "raised"} /\ ~sg_args[c].overwrite) =>
            LET reqs == sg_requests[c]
                user == sg_args[c].user_name
            IN  /\ Len(reqs) \in {1, 2}
                /\ reqs[1] = GradeRequest("GET", user, None)
                /\ Len(reqs) = 2 =>
                        /\ reqs[2].method = "PATCH"
                        /\ ObservedScore(c) = None
                /\ StoredScoreAtCall(c) # None =>
                        /\ sg_pc[c] # "patch"
                        /\ Len(reqs) = 1
                        /\ gradebook[user] = cell_at_call[c]
                        /\ sg_pc[c] = "done" => sg_return[c] = cell_at_call[c]

\* C1 witness: a second overwrite=False call, with another score, has
\* returned the stored record after its GET alone
C1_Witness ==
    \E c \in Callers :
        /\ sg_pc[c] = "done"
        /\ ~sg_args[c].overwrite
        /\ StoredScoreAtCall(c) # None
        /\ StoredScoreAtCall(c) # str(sg_args[c].grade_as_score)
        /\ Methods(sg_requests[c]) = <<"GET">>
        /\ sg_return[c] = gradebook[sg_args[c].user_name]

KeyIndex(items, user) ==
    IF \E i \in 1..Len(items) : items[i][1] = user
    THEN CHOOSE i \in 1..Len(items) : items[i][1] = user
    ELSE 0

TextOrEmpty(d, user) ==
    IF d # None /\ user \in DOMAIN d THEN d[user] ELSE PyStr("")

\* C8: set_grades_in_column calls set_grade once per key of grades_as_scores,
\* in the mapping's order, with '' for a missing text or feedback and with
\* its own overwrite flag; it returns the per-user results in that order;
\* a user who is only in the text or feedback map causes no request.
C8_OneSetGradePerUser ==
    batch_pc = "done" =>
        LET items == batch_args.grades_as_scores
            reqs == sg_requests[MainCaller]
        IN  /\ Len(batch_calls) = Len(items)
            /\ \A i \in 1..Len(items) :
                    /\ batch_calls[i].user_name = items[i][1]
                    /\ batch_calls[i].grade_as_score = items[i][2]
                    /\ batch_calls[i].grade_as_text =
                            TextOrEmpty(batch_args.grades_as_text, items[i][1])
                    /\ batch_calls[i].grade_feedback =
                            TextOrEmpty(batch_args.grades_feedback, items[i][1])
                    /\ batch_calls[i].overwrite = batch_args.overwrite
            /\ Len(batch_return) = Len(items)
            /\ \A i \in 1..Len(items) :
                    /\ batch_return[i]["userId"] = PyStr(items[i][1])
                    /\ batch_return[i] = gradebook[items[i][1]]
            /\ \A j \in 1..Len(reqs) : KeyIndex(items, reqs[j].user_name) > 0
            /\ \A j, k \in 1..Len(reqs) :
                    j < k => KeyIndex(items, reqs[j].user_name)
                                <= KeyIndex(items, reqs[k].user_name)
            /\ \A i \in 1..Len(items) :
                    \E j \in 1..Len(reqs) : reqs[j].user_name = items[i][1]
            /\ batch_args.overwrite =>
                    reqs = [i \in 1..Len(items) |->
                                GradeRequest("PATCH", items[i][1],
                                    [score |-> str(items[i][2]),
                                     text |-> TextOrEmpty(batch_args.grades_as_text, items[i][1]),
                                     feedback |-> TextOrEmpty(batch_args.grades_feedback, items[i][1])])]
            /\ ~batch_args.overwrite =>
                    \A j \in 1..Len(reqs) :
                        reqs[j].method = "PATCH" =>
                            DictGet(batch_start[reqs[j].user_name], "score", None) = None

\* C8 witness: a batch without overwrite over one user has returned after a
\* GET and a PATCH; the user had no text entry, and the text map has a key
\* that is no key of grades_as_scores
C8_Witness ==
    /\ batch_pc = "done"
    /\ ~batch_args.overwrite
    /\ Len(batch_args.grades_as_scores) = 1
    /\ batch_args.grades_as_text # None
    /\ \E u \in DOMAIN batch_args.grades_as_text :
            KeyIndex(batch_args.grades_as_scores, u) = 0
    /\ batch_calls[1].grade_as_text = PyStr("")
    /\ Len(batch_return) = 1
    /\ Methods(sg_requests[MainCaller]) = <<"GET", "PATCH">>

----------------------------------------------------------------------------
(* Properties of the api_token property (one caller)                       *)

\* The access of caller c found a cached token whose validity at the check
\* of line 105-108 was `left` seconds
CachedAtCheck(c) ==
    /\ tk_obs[c].start_token # None
    /\ tk_obs[c].checked

\* C3: an access that finds a cached token with more than 1 second left
\* returns that token, sends nothing to the token endpoint, does not sleep
\* and leaves the cached token and its expiration as they were.
C3_CachedTokenIsReused ==
    \A c \in Callers :
        (/\ tk_pc[c] \in {"l113", "done"}
         /\ CachedAtCheck(c)
         /\ tk_obs[c].first_remaining > 1) =>
            /\ tk_obs[c].posts = 0
            /\ tk_obs[c].sleeps = 0
            /\ api_token = tk_obs[c].start_token
            /\ api_token_expiration_datetime = tk_obs[c].start_expiry
            /\ tk_pc[c] = "done" => tk_ret[c] = tk_obs[c].start_token

\* C3 witness: an access has returned the cached token, with exactly 2
\* seconds left at its check, and no request was sent
C3_Witness ==
    \E c \in Callers :
        /\ tk_pc[c] = "done"
        /\ CachedAtCheck(c)
        /\ tk_obs[c].first_remaining = 2
        /\ tk_obs[c].posts = 0
        /\ tk_ret[c] = tk_obs[c].start_token
        /\ now > tk_obs[c].fetched_at

\* C4 as stated: an access that finds a cached token with at most 1 second
\* left sends exactly one request to the token endpoint and returns the
\* token of that response, stored with expiration = fetch time + expires_in
C4_ExactlyOneRefresh ==
    \A c \in Callers :
        (/\ tk_pc[c] = "done"
         /\ CachedAtCheck(c)
         /\ tk_obs[c].first_remaining <= 1) =>
            /\ tk_obs[c].posts = 1
            /\ tk_obs[c].sleeps >= 1
            /\ tk_ret[c] = tk_response[c].access_token
            /\ api_token_expiration_datetime =
                    DateTime(tk_obs[c].fetched_at + tk_response[c].expires_in)

\* C4 as amended: such an access discards the cached token, sleeps and sends
\* a request once for every check that finds at most 1 second left (the
\* first check, and the check of every new token that is itself within 1
\* second of its expiry when checked), so at least once; it returns the
\* token of its last response, which is a new one, stored with
\* expiration = fetch time + expires_in and with more than 1 second left at
\* its check.
C4_RefreshUntilValid ==
    \A c \in Callers :
        (/\ tk_pc[c] = "done"
         /\ CachedAtCheck(c)
         /\ tk_obs[c].first_remaining <= 1) =>
            /\ tk_obs[c].posts >= 1
            /\ tk_obs[c].posts = tk_obs[c].stale
            /\ tk_obs[c].sleeps = tk_obs[c].stale
            /\ tk_obs[c].last_remaining > 1
            /\ tk_ret[c] = tk_response[c].access_token
            /\ tk_ret[c] = Token(tokens_issued)
            /\ tk_ret[c] # tk_obs[c].start_token
            /\ api_token = tk_ret[c]
            /\ api_token_expiration_datetime =
                    DateTime(tk_obs[c].fetched_at + tk_response[c].expires_in)

\* C4 witness: an access found the cached token expired, refreshed it with
\* one request and returned the new token
C4_Witness ==
    \E c \in Callers :
        /\ tk_pc[c] = "done"
        /\ CachedAtCheck(c)
        /\ tk_obs[c].first_remaining < 0
        /\ tk_obs[c].posts = 1
        /\ tk_obs[c].sleeps = 1
        /\ tk_ret[c] = tk_response[c].access_token
        /\ tk_ret[c] # tk_obs[c].start_token

----------------------------------------------------------------------------
(* Properties of the paginated listings                                    *)

RECURSIVE ConcatResults(_, _)
ConcatResults(site, n) ==
    IF n = 0 THEN <<>>
    ELSE ConcatResults(site, n - 1) \o site[n].body["results"]

IsPrefix(s, t) ==
    /\ Len(s) <= Len(t)
    /\ \A i \in 1..Len(s) : s[i] = t[i]

\* C5: over a chain of k pages a body-cursor listing requests the base URL
\* and then the nextPage URL of each page in turn, k GETs in all, and yields
\* the results of page 1, then page 2, ... then page k.
C5_BodyCursorPaging ==
    pg_fn \in BodyPagingFns =>
        /\ IsPrefix(pg_requests, [i \in 1..Len(pg_site) |-> pg_site[i].url])
        /\ pg_yielded = ConcatResults(pg_site, Len(pg_requests))
        /\ pg_pc = "done" => Len(pg_requests) = Len(pg_site)

\* C5 witness: a three-page listing is exhausted, items of page 1 and of
\* page 3 were yielded, and the last page had a paging key without nextPage
C5_Witness ==
    /\ pg_fn \in BodyPagingFns
    /\ pg_pc = "done"
    /\ Len(pg_site) = 3
    /\ Len(pg_requests) = 3
    /\ "paging" \in DOMAIN pg_site[3].body
    /\ Len(pg_yielded) >= 2
    /\ pg_yielded[1].page = 1
    /\ Last(pg_yielded).page = 3


\* C6: after each page a Link-header listing requests the URL of the segment
\* whose rel is next, wherever that segment stands in the header, so the
\* pages of a chain are requested once each and in order, and the listing
\* ends after the last page.
C6_FollowsRelNext ==
    pg_fn \in LinkPagingFns =>
        /\ IsPrefix(pg_requests, [i \in 1..Len(pg_site) |-> pg_site[i].url])
        /\ pg_yielded = ConcatResults(pg_site, Len(pg_requests))
        /\ pg_pc = "done" => Len(pg_requests) = Len(pg_site)


\* C7: the first channels.list call of public_channels carries an empty
\* cursor request parameter and every later call carries, as its cursor
\* request parameter, the next_cursor of the response before it; the listing
\* ends at the first response without next_cursor, and over a two-page chain
\* it yields page 1's channels and then page 2's with exactly two requests.
C7_CursorIsRequestParameter ==
    pg_fn = "public_channels" =>
        /\ \A i \in 1..Len(pg_requests) :
            DictGet(pg_requests[i].request.params, "cursor", None) =
                IF i = 1 THEN PyStr("")
                ELSE pg_requests[i - 1].response["response_metadata"]
                                               ["next_cursor"]
        /\ pg_pc = "done" => ~HasNextCursor(Last(pg_requests).response)
        /\ (/\ pg_pc = "done"
            /\ Len(pg_site.pages) = 2
            /\ ~HasNextCursor(pg_site.pages[2].body)) =>
                /\ Len(pg_requests) = 2
                /\ pg_yielded = pg_site.pages[1].body["channels"]
                                    \o pg_site.pages[2].body["channels"]


----------------------------------------------------------------------------
(* Properties of direct_message_by_username                                *)

OpsOf(log) == [i \in 1..Len(log) |-> log[i].op]

IsPost(entry) == entry.op = "chat.postMessage"

\* C10: a call of direct_message_by_username that returns has resolved the
\* DM channels once (one im.list and one users.list request) before its
\* first post, has then posted once per entry of messages_by_username, in
\* order, to that user's resolved channel with that user's text, and returns
\* a map that holds, for every post, the text sent under the channel it was
\* sent to.
C10_ReturnMapsChannelToSentText ==
    (slack_fn = "direct_message_by_username" /\ slack_pc = "done") =>
        LET messages == slack_args.messages_by_username
            posts == SelectSeq(slack_log, IsPost)
            resolved == user_dm_channels(im_channels(slack_start.ims),
                                         user_ids(slack_start.members))
        IN  /\ OpsOf(slack_log) = <<"im.list", "users.list">> \o OpsOf(posts)
            /\ Len(posts) = Len(messages)
            /\ \A i \in 1..Len(messages) :
                /\ posts[i].json.channel = resolved[messages[i][1]]
                /\ posts[i].json.text = messages[i][2]
            /\ DOMAIN slack_return =
                    { posts[i].json.channel : i \in 1..Len(posts) }
            /\ \A i \in 1..Len(posts) :
                    slack_return[posts[i].json.channel] = posts[i].json.text



\* The chat.postMessage requests of the log
PostsIn(log) == { i \in 1..Len(log) : IsPost(log[i]) }

\* C30: the map that direct_message_by_username returns has one entry for
\* each input username: its size is the number of input usernames and the
\* number of chat.postMessage requests that were sent
C30_OneEntryPerUsername ==
    (slack_fn = "direct_message_by_username" /\ slack_pc = "done") =>
        /\ Cardinality(DOMAIN slack_return) =
                Len(slack_args.messages_by_username)
        /\ Cardinality(DOMAIN slack_return) = Cardinality(PostsIn(slack_log))

----------------------------------------------------------------------------
(* Properties of a batch that fails part-way                               *)

RequestsFor(reqs, method, user_name) ==
    { i \in 1..Len(reqs) :
        reqs[i].method = method /\ reqs[i].user_name = user_name }

\* The record of a cell after the PATCH of the i-th set_grade call
CellAfterPatch(i) ==
    ServerPatchGrade(batch_start, batch_calls[i].user_name,
                     patch_data(batch_calls[i]))[batch_calls[i].user_name]

\* set_grades_in_column left by an exception: the requests are those of the
\* users up to the failing one, in order and none twice, and every earlier
\* user's cell is as that user's set_grade call left it
GradeBatchFailure ==
    LET items == batch_args.grades_as_scores
        reqs == sg_requests[MainCaller]
        n == Len(batch_calls)
    IN  /\ ~(batch_pc = "loop" /\ sg_pc[MainCaller] = "raised")
        /\ batch_pc # "off" =>
            /\ \A i \in 1..Len(reqs) :
                    KeyIndex(items, reqs[i].user_name) \in 1..n
            /\ \A i, j \in 1..Len(reqs) :
                    i < j => KeyIndex(items, reqs[i].user_name)
                                <= KeyIndex(items, reqs[j].user_name)
            /\ \A u \in UserNames :
                    /\ Cardinality(RequestsFor(reqs, "GET", u)) <= 1
                    /\ Cardinality(RequestsFor(reqs, "PATCH", u)) <= 1
        /\ batch_pc = "raised" =>
            /\ sg_pc[MainCaller] = "raised"
            /\ n >= 1
            /\ Last(reqs).user_name = items[n][1]
            /\ Len(batch_return) = n - 1
            /\ \A i \in 1..(n - 1) :
                    gradebook[items[i][1]] =
                        IF RequestsFor(reqs, "PATCH", items[i][1]) # {}
                        THEN CellAfterPatch(i)
                        ELSE batch_start[items[i][1]]
            /\ \A u \in UserNames :
                    KeyIndex(items, u) \notin 1..n =>
                        gradebook[u] = batch_start[u]

\* The operations of a step of the channel set-up, in the order of its log
StepOps(step, kind) ==
    CASE step.op = "sleep" -> <<"sleep">>
      [] step.op = "create" -> <<ChannelMethod[kind].create>>
      [] step.op = "invite" -> <<ChannelMethod[kind].list, "users.list",
                                 ChannelMethod[kind].invite>>
      [] OTHER -> <<ChannelMethod[kind].list, ChannelMethod[kind][step.op]>>

RECURSIVE StepsOps(_, _)
StepsOps(steps, kind) ==
    IF steps = <<>> THEN <<>>
    ELSE StepOps(Head(steps), kind) \o StepsOps(Tail(steps), kind)

\* The workspace after the requests of a log that reached the server
RECURSIVE AfterLog(_, _, _)
AfterLog(ws, log, kind) ==
    IF log = <<>> THEN ws
    ELSE LET entry == Head(log)
             ops == { op \in {"create", "invite", "purpose", "topic"} :
                        ChannelMethod[kind][op] = entry.op }
         IN  AfterLog(IF entry.reached /\ ops # {}
                      THEN ServerChannelRequest(ws, kind,
                                CHOOSE op \in ops : TRUE, entry.json)
                      ELSE ws,
                      Tail(log), kind)

\* create_and_setup_channel at any point, also when left by an exception:
\* its log is a beginning of the operations of its steps, none repeated and
\* none added, and the workspace holds every request that reached it
ChannelSetupFailure ==
    slack_fn = "create_and_setup_channel" =>
        LET kind == KindOf(slack_args.public) IN
        /\ IsPrefix(OpsOf(slack_log),
                    StepsOps(channel_steps(slack_args), kind))
        /\ workspace = AfterLog(slack_start, slack_log, kind)
        /\ slack_return # EmptyDict => slack_pc = "done"

\* Once an exception has left either method nothing more is requested and
\* the server's state stays
NothingAfterRaise ==
    /\ batch_pc = "raised" =>
            UNCHANGED <<sg_requests, gradebook, batch_return>>
    /\ slack_pc = "raised" =>
            UNCHANGED <<slack_log, workspace, slack_return>>

\* C9: when a step of set_grades_in_column or of create_and_setup_channel
\* raises, the method is left by the exception, no request follows for a
\* later user or step, no request is repeated, and what earlier steps wrote
\* on the server stays as written.
C9_PartialBatchFailure ==
    /\ [](GradeBatchFailure /\ ChannelSetupFailure)
    /\ [][NothingAfterRaise]_vars

\* The second of two users fails after the first user's PATCH: the first
\* cell holds the written grade
C9_Witness ==
    /\ batch_pc = "raised"
    /\ Len(batch_calls) = 2
    /\ Methods(sg_requests[MainCaller]) = <<"PATCH", "PATCH">>
    /\ gradebook[batch_calls[1].user_name] = CellAfterPatch(1)
    /\ gradebook[batch_calls[1].user_name]
            # batch_start[batch_calls[1].user_name]
    /\ gradebook[batch_calls[2].user_name]
            = batch_start[batch_calls[2].user_name]


----------------------------------------------------------------------------
(* Properties of create_and_setup_channel                                  *)

\* The calls of the choreography in a log: not the sleeps, and not the
\* listings that look up the ids
IsChoreographyCall(entry) ==
    entry.op \notin {"sleep", "users.list", "channels.list", "groups.list"}

\* C11: a call of create_and_setup_channel that returns has made, in this
\* order, the create call, one invite call per invitee in the order of
\* user_names_to_invite (each for that invitee's user id), the set-purpose
\* call, the set-topic call and the info call, all of the public kind when
\* public is set and all of the private kind otherwise, and it returns the
\* reply of the info call.
C11_ChoreographyOrder ==
    (slack_fn = "create_and_setup_channel" /\ slack_pc = "done") =>
        LET kind == KindOf(slack_args.public)
            method == ChannelMethod[kind]
            invitees == slack_args.user_names_to_invite
            n == Len(invitees)
            calls == SelectSeq(slack_log, IsChoreographyCall)
        IN  /\ OpsOf(calls) =
                    <<method.create>> \o [i \in 1..n |-> method.invite]
                        \o <<method.purpose, method.topic, method.info>>
            /\ calls[1].json.name = slack_args.channel_name
            /\ \A i \in 1..n : calls[1 + i].json.user = UserId[invitees[i]]
            /\ calls[n + 2].json.purpose = slack_args.channel_purpose
            /\ calls[n + 3].json.topic = slack_args.channel_topic
            /\ slack_return = [channel |-> workspace.channels[kind]]
            /\ slack_return.channel.purpose = slack_args.channel_purpose
            /\ slack_return.channel.topic = slack_args.channel_topic

\* A private channel with two different invitees, set up to the end
C11_Witness ==
    /\ slack_fn = "create_and_setup_channel"
    /\ slack_pc = "done"
    /\ ~slack_args.public
    /\ slack_args.user_names_to_invite = <<"u2", "u1">>
    /\ slack_return.channel.members = {"U1", "U2"}

\* C12: in the log of create_and_setup_channel every call of the
\* choreography but the last (create, each invite, set purpose, set topic)
\* is followed at once by a sleep of sleep_time seconds, in the public and
\* in the private branch alike.
C12_SleepAfterEveryCall ==
    slack_fn = "create_and_setup_channel" =>
        \A i \in 1..(Len(slack_log) - 1) :
            (/\ IsChoreographyCall(slack_log[i])
             /\ slack_log[i].op
                    # ChannelMethod[KindOf(slack_args.public)].info) =>
                /\ slack_log[i + 1].op = "sleep"
                /\ slack_log[i + 1].json.seconds = slack_args.sleep_time


----------------------------------------------------------------------------
(* Properties of remove_single_file_pr_deletions                           *)

Returned ==
    /\ call_fn = "remove_single_file_pr_deletions"
    /\ call_pc = "done"

\* s is t with some elements taken out
RECURSIVE IsSubsequence(_, _)
IsSubsequence(s, t) ==
    IF s = <<>> THEN TRUE
    ELSE IF t = <<>> THEN FALSE
    ELSE IF Head(s) = Head(t) THEN IsSubsequence(Tail(s), Tail(t))
    ELSE IsSubsequence(s, Tail(t))

\* text.split('\n') of the returned text: its lines, then ""
SplitOfReturned == call_return \o <<"">>

\* The lines of a text given by its split: the element after the last
\* newline is no line when it is empty
TextLines(contents) ==
    IF Last(contents) = "" THEN SubSeq(contents, 1, Len(contents) - 1)
    ELSE contents

IsNonBlank(text) == text # ""

TextsOf(diff) == [k \in 1..Len(diff) |-> diff[k].text]

IsOfBase(line) == line.tag # "+"

IsNoNonBlankInsertion(line) == ~(line.tag = "+" /\ line.text # "")

\* The lengths of the runs of consecutive blank lines, in order
RECURSIVE BlankRunsFrom(_, _)
BlankRunsFrom(lines, run) ==
    IF lines = <<>> THEN (IF run > 0 THEN <<run>> ELSE <<>>)
    ELSE IF Head(lines) = "" THEN BlankRunsFrom(Tail(lines), run + 1)
    ELSE (IF run > 0 THEN <<run>> ELSE <<>>)
            \o BlankRunsFrom(Tail(lines), 0)

BlankRuns(lines) == BlankRunsFrom(lines, 0)

\* C13: when the PR's file is the base file with some lines deleted and
\* nothing inserted, the returned text is the base file's text, character
\* for character.
C13_DeletionsOnlyGiveBase ==
    (/\ Returned
     /\ IsSubsequence(CallLocal("pr_file_contents"),
                      CallLocal("base_file_contents"))
     /\ CallLocal("pr_file_contents") # CallLocal("base_file_contents")) =>
        SplitOfReturned = CallLocal("base_file_contents")

\* C14: the non-blank lines of the returned text are, in the order of the
\* line diff from the base file to the PR file, the non-blank lines of the
\* base file (kept or deleted by the PR) and the non-blank lines the PR
\* inserted, each once.
C14_NonBlankLinesOfDiff ==
    Returned =>
        LET diff == diff_body(CallLocal("base_file_contents"),
                              CallLocal("pr_file_contents"))
        IN  /\ TextsOf(SelectSeq(diff, IsOfBase))
                    = CallLocal("base_file_contents")
            /\ SelectSeq(call_return, IsNonBlank)
                    = SelectSeq(TextsOf(diff), IsNonBlank)

\* C15 as stated: the runs of blank lines of the returned text have the
\* lengths of the runs of the base file, whatever the PR inserted.
C15_BlankRunsOfBase ==
    Returned =>
        BlankRuns(call_return)
            = BlankRuns(TextLines(CallLocal("base_file_contents")))

\* C15: every blank line of the diff is kept, the base file's (kept or
\* deleted by the PR) and those the PR inserted, and the non-blank lines
\* the PR inserted split no run: the runs of blank lines of the returned
\* text are those of the diff's lines with the non-blank insertions taken
\* out; the result for two equal files is empty.
C15_BlankRunsOfDiff ==
    Returned =>
        LET base == CallLocal("base_file_contents")
            pr == CallLocal("pr_file_contents")
            kept == SelectSeq(diff_body(base, pr), IsNoNonBlankInsertion)
        IN  BlankRuns(call_return) =
                IF base = pr THEN <<>>
                ELSE BlankRuns(TextLines(TextsOf(kept)))

\* The PR inserted a blank line next to the base file's only blank line
C15_Witness ==
    /\ Returned
    /\ BlankRuns(TextLines(CallLocal("base_file_contents"))) = <<1>>
    /\ BlankRuns(call_return) = <<2>>
    /\ SelectSeq(CallLocal("base_file_contents"), IsNonBlank)
            = SelectSeq(CallLocal("pr_file_contents"), IsNonBlank)

\* C16: a PR whose changed_files is not 1 ends the call with the assertion
\* failure right after the request of the PR's metadata: no other request
\* was made and nothing is returned; a PR with one changed file passes.
C16_AssertSingleFile ==
    (call_fn = "remove_single_file_pr_deletions"
        /\ "changed_files" \in DOMAIN call_locals) =>
        IF CallLocal("changed_files") = 1
        THEN call_pc # "raised"
        ELSE /\ call_pc = "raised"
             /\ call_log = <<"pulls/pr_number">>
             /\ call_return = None

C16_Witness ==
    /\ call_fn = "remove_single_file_pr_deletions"
    /\ call_pc = "raised"
    /\ CallLocal("changed_files") = 2


----------------------------------------------------------------------------
(* Properties of flatten_dict                                              *)

\* The same dict with its items inserted in any order
Reorderings(items) ==
    { p \in [1..Len(items) -> { items[i] : i \in 1..Len(items) }] :
        \A i, j \in 1..Len(items) : p[i] = p[j] => i = j }

\* order lists the keys of items as sorted must: by their sort keys,
\* ascending or with reverse descending, and keys of equal sort key in the
\* order of their insertion
IsSortedOrder(order, items, options) ==
    /\ Len(order) = Len(items)
    /\ { order[p] : p \in 1..Len(order) } = { items[i][1] : i \in 1..Len(items) }
    /\ \A p, q \in 1..Len(order) :
        p < q =>
            LET kp == sort_key(order[p], options)
                kq == sort_key(order[q], options)
            IN  /\ IF options.reverse THEN kp >= kq ELSE kp <= kq
                /\ kp = kq => KeyIndex(items, order[p])
                                < KeyIndex(items, order[q])

\* The entry of a key: str(key), the separator and str(value), or
\* str(value) alone
Entry(args, k) ==
    (IF args.suppress_keys THEN "" ELSE k \o args.key_value_separator)
        \o str(ItemValue(args.data_items, k)).s

\* items_separator before every entry and none after the last
RECURSIVE Joined(_, _, _)
Joined(args, order, n) ==
    IF n = 0 THEN ""
    ELSE Joined(args, order, n - 1) \o args.items_separator
            \o Entry(args, order[n])

FlattenDone == call_fn = "flatten_dict" /\ call_pc = "done"

NoEqualSortKeys(items, options) ==
    \A i, j \in 1..Len(items) :
        sort_key(items[i][1], options) = sort_key(items[j][1], options)
            => i = j

\* C17 as stated: the result is the same for every insertion order of the
\* dict, whatever options are passed to sorted.
C17_InsertionOrderNeverMatters ==
    FlattenDone =>
        \A items \in Reorderings(call_args.data_items) :
            flatten_dict([call_args EXCEPT !.data_items = items])
                = call_return

\* C17: the result is items_separator + e_0 + items_separator + e_1 + ...
\* + e_(n-1) (the separator alone for an empty dict), the entries in the
\* order of sorted(keys, **options): ascending, or descending with
\* reverse, keys that the key option makes equal in their insertion order;
\* it is the same for every insertion order when no two keys are equal for
\* sorted.
C17_FlattenDict ==
    FlattenDone =>
        /\ \E order \in Reorderings(ItemKeys(call_args.data_items)) :
            /\ IsSortedOrder(order, call_args.data_items, call_args.kwargs)
            /\ call_return =
                    IF order = <<>> THEN call_args.items_separator
                    ELSE Joined(call_args, order, Len(order))
        /\ NoEqualSortKeys(call_args.data_items, call_args.kwargs) =>
            \A items \in Reorderings(call_args.data_items) :
                flatten_dict([call_args EXCEPT !.data_items = items])
                    = call_return

\* Three keys inserted out of order, flattened in descending order
C17_Witness ==
    /\ FlattenDone
    /\ call_args.kwargs = [reverse |-> TRUE, key |-> "none"]
    /\ ~call_args.suppress_keys
    /\ call_args.key_value_separator = ":"
    /\ ItemKeys(call_args.data_items) = <<"a", "b", "A">>
    /\ call_return = ";b:7;a:x;A:7"


----------------------------------------------------------------------------
(* Properties of convert_csv_to_multimap                                   *)

MultimapDone == call_fn = "convert_csv_to_multimap" /\ call_pc = "done"

\* The rows' key-column and values-column cells, in file order
KeyCells(args) ==
    [i \in 1..Len(args.rows) |-> args.rows[i][key_column_of(args)]]
ValueCells(args) ==
    [i \in 1..Len(args.rows) |-> args.rows[i][values_column_of(args)]]

\* The rows that have the key, in file order
RowsWithKey(args, key) ==
    { i \in 1..Len(args.rows) : KeyCells(args)[i] = key }

\* The values of the rows with the key, in file order
RECURSIVE ValuesOfKey(_, _, _)
ValuesOfKey(args, key, n) ==
    IF n = 0 THEN <<>>
    ELSE ValuesOfKey(args, key, n - 1)
            \o (IF KeyCells(args)[n] = key THEN <<ValueCells(args)[n]>>
                ELSE <<>>)

\* C18: the keys of the result are the key-column values of the rows, each
\* once, in the order of their first rows; without overwrite_values a key
\* maps to the list of the values of all its rows in file order, with
\* overwrite_values to the value of its last row.
C18_Multimap ==
    MultimapDone =>
        LET keys == ItemKeys(call_return)
            cells == KeyCells(call_args)
            n == Len(call_args.rows)
        IN  /\ { keys[i] : i \in 1..Len(keys) } = { cells[i] : i \in 1..n }
            /\ \A i, j \in 1..Len(keys) :
                /\ keys[i] = keys[j] => i = j
                /\ i < j => Min(RowsWithKey(call_args, keys[i]))
                                < Min(RowsWithKey(call_args, keys[j]))
            /\ \A i \in 1..Len(keys) :
                call_return[i][2] =
                    IF call_args.overwrite_values
                    THEN ValueCells(call_args)[
                            Max(RowsWithKey(call_args, keys[i]))]
                    ELSE ValuesOfKey(call_args, keys[i], n)
            /\ ~call_args.overwrite_values =>
                \A i \in 1..Len(keys) :
                    Len(call_return[i][2])
                        = Cardinality(RowsWithKey(call_args, keys[i]))

\* Three rows, two of one key with another key's row between them
C18_Witness ==
    /\ MultimapDone
    /\ ~call_args.overwrite_values
    /\ call_args.key_column = None
    /\ KeyCells(call_args) = <<"y", "x", "y">>
    /\ call_return = << <<"y", <<"x", "y">> >>, <<"x", <<"x">> >> >>


----------------------------------------------------------------------------
(* Properties of mail_merge_from_dict                                      *)

MailMergeDone == call_fn = "mail_merge_from_dict" /\ call_pc = "done"

\* C19: the template is read once; the result has one entry for each entry
\* of data_dict, with the same keys in the same order, and the value of a
\* key is the rendering of the template against that key's record alone.
C19_MailMergePerKey ==
    MailMergeDone =>
        /\ call_log = <<"template_fp.read">>
        /\ Len(call_return) = Len(call_args.data_dict)
        /\ ItemKeys(call_return) = ItemKeys(call_args.data_dict)
        /\ \A i \in 1..Len(call_return) :
            call_return[i][2] =
                render(call_args.template_fp.contents,
                       call_args.data_dict[i][2])

\* Two records that render differently, and one without a variable of the
\* template
C19_Witness ==
    /\ MailMergeDone
    /\ call_args.template_fp.contents
        = <<[text |-> "Hi "], [variable |-> "name"]>>
    /\ ItemKeys(call_args.data_dict) = <<"k2", "k1">>
    /\ call_return = << <<"k2", "Hi y">>, <<"k1", "Hi ">> >>


----------------------------------------------------------------------------
(* Properties of convert_xlsx_to_yaml_calendar                             *)

CalendarDone == call_fn = "convert_xlsx_to_yaml_calendar" /\ call_pc = "done"

\* The Monday of the Monday-to-Sunday week a date lies in
monday_of(day) ==
    CHOOSE monday \in (day - 6)..day : weekday_of(monday) = 0

\* The place of a weekday column in the week, Monday 0 through Sunday 6
offset(header) ==
    CASE header \in {"Monday", "monday"} -> 0
      [] header \in {"Tuesday", "tuesday"} -> 1
      [] header \in {"Wednesday", "wednesday"} -> 2
      [] header \in {"Thursday", "thursday"} -> 3
      [] header \in {"Friday", "friday"} -> 4
      [] header \in {"Saturday", "saturday"} -> 5
      [] header \in {"Sunday", "sunday"} -> 6

\* The dated entries of the calendar: week, weekday column and Date
DatedEntries(calendar_dict) ==
    { <<calendar_dict[i][1], calendar_dict[i][2][j][1],
        calendar_dict[i][2][j][2].Date>> :
        <<i, j>> \in { p \in (1..Len(calendar_dict)) \X (1..Len(CalendarHeaders)) :
                        /\ p[2] <= Len(calendar_dict[p[1]][2])
                        /\ "Date" \in DOMAIN calendar_dict[p[1]][2][p[2]][2] } }

\* C20: the output is the same for every start_date of the same
\* Monday-to-Sunday week, and the Date of week w and weekday column d is
\* monday_of(start_date) + 7 * (w - 1) + offset(d) days, a day that falls on
\* weekday d.
C20_MondayAnchoredWeeks ==
    CalendarDone =>
        /\ \A other \in StartDates :
            monday_of(other) = monday_of(call_args.start_date) =>
                convert_xlsx_to_yaml_calendar(
                    [call_args EXCEPT !.start_date = other]) = call_return
        /\ \A e \in DatedEntries(call_locals.calendar_dict) :
            LET day == monday_of(call_args.start_date)
                            + 7 * (e[1] - 1) + offset(e[2])
            IN  /\ e[3] = strftime(day)
                /\ weekday_of(day) = offset(e[2])

\* Called with a Wednesday: week 3 has its Tuesday and its Sunday dated from
\* the Monday before
C20_Witness ==
    /\ CalendarDone
    /\ call_args.start_date = FirstStartDate + 2
    /\ call_return = <<"3:", "  Tuesday:", "    Date: 16JAN2018",
                       "    Activities:", "    - a", "    - b",
                       "  sunday:", "    Date: 21JAN2018",
                       "    Activities:", "    - a", "    - b">>


----------------------------------------------------------------------------
(* Properties of convert_csv_to_dict and convert_xlsx_to_dict              *)

ToDictEnded ==
    /\ call_fn \in {"convert_csv_to_dict", "convert_xlsx_to_dict"}
    /\ call_pc \in {"done", "raised"}

NamedKeyIsAbsent ==
    /\ call_args.key # None
    /\ ~InHeaderRow(call_args.key.s)

\* C21: a call that names a key column absent from the header row ends by
\* raising and returns no mapping, whatever the number of data rows.
C21_AbsentKeyColumnRaises ==
    (ToDictEnded /\ NamedKeyIsAbsent) =>
        (call_pc = "raised" /\ call_return = None)


----------------------------------------------------------------------------
(* Properties of the single channel methods                                *)

InOrAfterChannelMethod ==
    /\ slack_pc \in {"run", "done", "raised"}
    /\ slack_fn = ChannelMethodName[KindOf(slack_args.public)][slack_args.op]

\* The requests of the method itself in the log: all but the listings
MethodRequests ==
    SelectSeq(slack_log,
              LAMBDA r : r.op \notin {"channels.list", "groups.list",
                                      "users.list"})

\* The channel of the method's kind that bears the lower-cased name, as the
\* workspace held it when the method was called
ListedChannel ==
    LET channel == slack_start.channels[KindOf(slack_args.public)]
    IN  IF channel # None /\ channel.name = lower(slack_args.channel_name)
        THEN channel ELSE None

\* The listing was answered and the method raised at the look-up of its
\* channel
RaisedAtChannelLookup ==
    /\ slack_pc = "raised"
    /\ Len(slack_log) = 1
    /\ slack_log[1].reached

\* C22: the name is lower-cased before it is looked up in the listing, so a
\* name resolves to the id of the channel bearing its lower-cased form,
\* whatever its letter case; when no channel bears it the method raises at
\* the look-up and no invite, setPurpose, setTopic or info request is sent.
C22_LowerCasedChannelLookup ==
    InOrAfterChannelMethod =>
        /\ "channel" \in DOMAIN slack_locals =>
            /\ ListedChannel # None
            /\ slack_locals["channel"] = ListedChannel.id
        /\ \A i \in 1..Len(MethodRequests) :
            /\ ListedChannel # None
            /\ MethodRequests[i].json.channel = ListedChannel.id
        /\ RaisedAtChannelLookup <=>
            (Len(slack_log) = 1 /\ slack_log[1].reached /\ slack_pc # "run"
                /\ ListedChannel = None)
        /\ (ListedChannel = None /\ Len(slack_log) >= 1) =>
            (slack_pc = "raised" /\ MethodRequests = <<>>)

\* A name in upper case has resolved to the channel of the lower-case name
\* and the request is sent
C22_Witness ==
    /\ InOrAfterChannelMethod
    /\ slack_pc = "done"
    /\ slack_args.channel_name = "Lab"
    /\ slack_args.op = "topic"
    /\ MethodRequests = <<SlackRequest("channels.setTopic",
                            [channel |-> "C1", topic |-> "T"], TRUE)>>


----------------------------------------------------------------------------
(* Properties of the directory accessors                                   *)

RECURSIVE ConcatChannels(_, _)
ConcatChannels(pages, n) ==
    IF n = 0 THEN <<>>
    ELSE ConcatChannels(pages, n - 1) \o pages[n].body["channels"]

\* The directory an accessor stands for, on a given state of the server
DirectoryOn(fn, server) ==
    CASE fn \in {"gradebook_columns_primary_ids", "org_team_ids"} ->
            name_to_id(ConcatResults(server, Len(server)))
      [] fn = "public_channels_ids" ->
            name_to_id(ConcatChannels(server.pages, Len(server.pages)))
      [] fn = "private_channels_ids" -> channels_ids(server, "private")
      [] fn = "user_ids" -> user_ids(server.members)
      [] OTHER -> user_dm_channels(im_channels(server.ims),
                                   user_ids(server.members))

\* The first request of an accessor: the first page of its listing
FirstRequestOf(fn) ==
    CASE fn \in {"gradebook_columns_primary_ids", "org_team_ids"} -> BaseUrl
      [] fn = "public_channels_ids" -> PyStr("")
      [] OTHER -> DirectoryRequests[fn][1]

\* C23: every access starts its fetch at the first page and returns the
\* directory as the server holds it at that access, never what an earlier
\* access obtained; between accesses the client holds no listing in
\* progress.
C23_NoDirectoryCache ==
    /\ \A n \in 1..Len(call_log) :
        /\ call_log[n].first = FirstRequestOf(call_log[n].fn)
        /\ call_log[n].value
            = [dict |-> DirectoryOn(call_log[n].fn, call_log[n].server)]
    /\ (call_fn # "none" /\ call_pc = "idle") =>
        /\ pg_pc = "idle"
        /\ call_return = Last(call_log).value

\* Two accesses with a change of the server between them returned different
\* directories
C23_Witness ==
    /\ Len(call_log) = 2
    /\ call_log[1].fn = "gradebook_columns_primary_ids"
    /\ call_log[2].fn = "gradebook_columns_primary_ids"
    /\ Len(call_log[1].server) = 2
    /\ call_log[1].server # call_log[2].server
    /\ call_log[1].value # call_log[2].value


----------------------------------------------------------------------------
(* Properties of concurrent set_grade calls                                *)

\* Caller c called without overwrite and its PATCH was answered
PatchedWithoutOverwrite(c) ==
    /\ sg_pc[c] = "done"
    /\ ~sg_args[c].overwrite
    /\ Methods(sg_requests[c]) = <<"GET", "PATCH">>

\* C24: a call without overwrite decides on its PATCH by the score it read
\* itself, and the PATCH is applied whatever the cell holds by then: no lock
\* spans the read and the write, so of two such calls on an ungraded cell
\* both can write, the later PATCH replacing the score of the earlier.
C24_ReadThenMaybeWrite ==
    \A c \in Callers :
        PatchedWithoutOverwrite(c) =>
            /\ DictGet(current_grade[c], "score", None) = None
            /\ sg_return[c]["score"] = str(sg_args[c].grade_as_score)

\* Both callers read the ungraded cell, both wrote, and the cell holds the
\* score of the second writer, not the score the first was answered with
C24_Witness ==
    /\ \A c \in Callers : PatchedWithoutOverwrite(c)
    /\ sg_args["c1"].user_name = sg_args["c2"].user_name
    /\ sg_return["c1"]["score"] = PyStr("7")
    /\ sg_return["c2"]["score"] = PyStr("8")
    /\ gradebook[sg_args["c1"].user_name]["score"] = PyStr("8")

----------------------------------------------------------------------------
(* Two concurrent accesses of api_token                                    *)

\* Both accesses ran to their return, each after one token request that the
\* expiry check accepted
BothStoredOnce ==
    \A c \in Callers :
        /\ tk_pc[c] = "done"
        /\ tk_obs[c].posts = 1
        /\ tk_obs[c].stale = 0

\* The token and the expiration that the response of caller c gives
StoredPairOf(c) ==
    <<tk_response[c].access_token,
      expiration(tk_obs[c].fetched_at, tk_response[c].expires_in)>>

\* C25: when two concurrent accesses both saw no token, each sends its own
\* token request, and the cached token and expiration are afterwards the
\* pair written by one of the two accesses (the one that stored last)
C25_TwoRequestsLastPairWins ==
    BothStoredOnce =>
        /\ tokens_issued = 2
        /\ \E c \in Callers :
                <<api_token, api_token_expiration_datetime>> = StoredPairOf(c)

\* C26: an access that returns yields a token, never None, whatever the
\* other access does in between
C26_ReturnsToken ==
    \A c \in Callers : tk_pc[c] = "done" => tk_ret[c] # None

----------------------------------------------------------------------------
(* Termination of one api_token access                                     *)

\* The access of caller c is on its way out: at the return of some frame
Returning(c) == tk_pc[c] \in {"l113", "l111r", "done"}

\* The access of caller c is on its way in: between lines 85 and 108 of the
\* innermost frame
Entering(c) == tk_pc[c] \in {"l85", "l91", "l99", "l100", "l105"}

\* C27: an access reaches a return only after a check that found more than
\* 1 second left, so, when it requested tokens, only after a response with
\* expires_in above 1; every check that finds at most 1 second left is
\* followed by the discard, one sleep(1) and one more request in a new
\* frame of the property, without a limit on their number: an access that
\* has only received such tokens is not at a return.
C27_ReturnsOnlyWithValidToken ==
    \A c \in Callers :
        /\ Returning(c) =>
            /\ tk_obs[c].checked
            /\ tk_obs[c].last_remaining > 1
            /\ tk_obs[c].posts > 0 => tk_response[c].expires_in > 1
        /\ Entering(c) =>
            /\ tk_obs[c].stale = tk_depth[c]
            /\ tk_obs[c].sleeps = tk_depth[c]
        /\ (tk_pc[c] \in {"l99", "l100", "l105"} /\ tk_depth[c] > 0) =>
            tk_obs[c].posts \in {tk_depth[c], tk_depth[c] + 1}
        /\ (tk_pc[c] = "l91" /\ tk_depth[c] > 0) => api_token = None

\* C27 witness: an access that found no token has returned after three
\* requests: two tokens with expires_in of at most 1, each discarded and
\* followed by a sleep, then a token with more than 1 second left
C27_Witness ==
    \E c \in Callers :
        /\ tk_pc[c] = "done"
        /\ tk_obs[c].start_token = None
        /\ tk_obs[c].posts = 3
        /\ tk_obs[c].stale = 2
        /\ tk_obs[c].sleeps = 2
        /\ tk_ret[c] = Token(tokens_issued)

----------------------------------------------------------------------------
(* End of the public_channels listing                                      *)

\* The next_cursor of a response, None when a key on the way is absent
NextCursorOf(body) ==
    IF "response_metadata" \in DOMAIN body
    THEN DictGet(body["response_metadata"], "next_cursor", None)
    ELSE None

LastPageOf(site) == site.pages[Len(site.pages)].body

\* C28: public_channels ends only at a response in which the next_cursor
\* key is absent; after a response whose next_cursor is the empty string it
\* sends the first request again and gets the first response again, so when
\* the server's last page carries an empty next_cursor the listing does not
\* end, and what it yields is the channels of all its responses, the first
\* page's again among them.
C28_EmptyNextCursorRestarts ==
    pg_fn = "public_channels" =>
        /\ pg_pc = "done" => NextCursorOf(Last(pg_requests).response) = None
        /\ \A i \in 1..(Len(pg_requests) - 1) :
            NextCursorOf(pg_requests[i].response) = PyStr("") =>
                pg_requests[i + 1] = pg_requests[1]
        /\ NextCursorOf(LastPageOf(pg_site)) = PyStr("") => pg_pc # "done"
        /\ \A i \in 1..Len(pg_requests) :
            NextCursorOf(pg_requests[i].response) = None =>
                /\ i = Len(pg_requests)
                /\ pg_pc = "done"

\* C28 witness: the server picks the page by the cursor header and ends its
\* two pages with an empty next_cursor; the third request is the first one
\* again and the first page's channel has been yielded twice
C28_Witness ==
    /\ pg_fn = "public_channels"
    /\ pg_site.reads = "headers"
    /\ Len(pg_site.pages) = 2
    /\ NextCursorOf(LastPageOf(pg_site)) = PyStr("")
    /\ Len(pg_requests) = 3
    /\ pg_requests[3] = pg_requests[1]
    /\ pg_yielded = <<Item(1, 1), Item(2, 1), Item(1, 1)>>
    /\ pg_pc = "run"

----------------------------------------------------------------------------
(* Tokens of the page requests                                             *)

\* C29: every page request of a gradebook listing carries a token that
\* api_token returned at the moment of that request, with more than 1
\* second of validity left when the request is sent
C29_FreshTokenPerPage ==
    \A i \in 1..Len(call_log) :
        /\ call_log[i].obtained_at = call_log[i].sent_at
        /\ call_log[i].token_left > 1

\* The same for the two listings that evaluate self.api_token in their loop
FreshTokenInHandWrittenLoops ==
    pg_fn \in {"gradebook_schemas", "get_grades_in_column"} =>
        C29_FreshTokenPerPage

====
